---- MODULE Spec2Model ----
(***************************************************************************)
(* Model of the tile pyramid of ai-empires-game: the server side tile      *)
(* cache and its invalidation records (tile GET route, tileCache.ts, tile  *)
(* precompute route) and the client side TileLoader (tileLoader.ts).       *)
(***************************************************************************)
EXTENDS Integers, Sequences, FiniteSets, Bags, TLC

(***************************************************************************)
(* Bounds of the model (inputs, not program constants).                    *)
(***************************************************************************)
\* width and height of the stored map (MapData.width, MapData.height)
MapWidth == 1000
MapHeight == 500
\* number of tile GET requests
MaxReqs == 2
\* number of territory changes
MaxChanges == 1
\* calls made on the tile loader
MaxCalls == 2
\* calls of generateMap
MaxRuns == 3
\* the settlements created
MaxSettlements == 3
\* the map generation requests
MaxGens == 2

(***************************************************************************)
(* src/src/lib/tileGeneration.ts                                           *)
(***************************************************************************)
BASE_TILE_SIZE == 512
HIGH_RES_TILE_SIZE == 1024
ZOOM_MULTIPLIERS == <<1, 2, 4, 8, 16>>

MapView == {"terrain", "political", "resources"}

\* Math.ceil(a / b) for b > 0
CeilDiv(a, b) == -((-a) \div b)

getTileSize(zoomLevel) ==
  IF zoomLevel >= 2 THEN HIGH_RES_TILE_SIZE ELSE BASE_TILE_SIZE

worldTileSize(zoomLevel) == getTileSize(zoomLevel) * ZOOM_MULTIPLIERS[zoomLevel + 1]

Max(a, b) == IF a >= b THEN a ELSE b
Min(a, b) == IF a <= b THEN a ELSE b

\* a conversion that rounds up instead of down
worldToTile_Ceil(worldX, worldY, zoomLevel) ==
  [x |-> CeilDiv(worldX, worldTileSize(zoomLevel)),
   y |-> CeilDiv(worldY, worldTileSize(zoomLevel)),
   zoom |-> zoomLevel]

\* Math.floor(world / worldTileSize): \div is the floor division
worldToTile(worldX, worldY, zoomLevel) ==
  [x |-> worldX \div worldTileSize(zoomLevel),
   y |-> worldY \div worldTileSize(zoomLevel),
   zoom |-> zoomLevel]

\* bounds that are not clamped to the map
calculateTileBounds_Unclamped(tileX, tileY, zoomLevel, mapWidth, mapHeight) ==
  [minX |-> tileX * worldTileSize(zoomLevel),
   maxX |-> tileX * worldTileSize(zoomLevel) + worldTileSize(zoomLevel),
   minY |-> tileY * worldTileSize(zoomLevel),
   maxY |-> tileY * worldTileSize(zoomLevel) + worldTileSize(zoomLevel)]

\* lines 29-51: the world rectangle of a tile, clamped to the map
calculateTileBounds(tileX, tileY, zoomLevel, mapWidth, mapHeight) ==
  LET multiplier == ZOOM_MULTIPLIERS[zoomLevel + 1]
      tileSize == getTileSize(zoomLevel)
      wts == tileSize * multiplier
      minX == tileX * wts
      maxX == minX + wts
      minY == tileY * wts
      maxY == minY + wts
  IN [minX |-> Max(0, minX), maxX |-> Min(mapWidth, maxX),
      minY |-> Max(0, minY), maxY |-> Min(mapHeight, maxY)]

\* the key of a tile: the fields getTileKey joins into the id of a map_tiles row
getTileKey(mapId, zoomLevel, tileX, tileY, viewMode) ==
  [map_id |-> mapId, zoom_level |-> zoomLevel, tile_x |-> tileX,
   tile_y |-> tileY, view_mode |-> viewMode]

\* the bytes generateTile returns: a deterministic function of the map, the
\* key and the territories snapshot handed to it
generateTile(mapId, tileX, tileY, zoomLevel, viewMode, territoriesMap) ==
  [key |-> getTileKey(mapId, zoomLevel, tileX, tileY, viewMode),
   snapshot |-> territoriesMap]

(***************************************************************************)
(* parseInt: strings are sequences of one-character strings                *)
(***************************************************************************)
DigitChars == {"0", "1", "2", "3", "4", "5", "6", "7", "8", "9"}

DigitVal(c) ==
  CASE c = "0" -> 0 [] c = "1" -> 1 [] c = "2" -> 2 [] c = "3" -> 3
    [] c = "4" -> 4 [] c = "5" -> 5 [] c = "6" -> 6 [] c = "7" -> 7
    [] c = "8" -> 8 [] c = "9" -> 9

NaN == [nan |-> TRUE, val |-> 0]
Num(n) == [nan |-> FALSE, val |-> n]
isNaN(v) == v.nan

RECURSIVE SkipWhitespace(_)
SkipWhitespace(s) ==
  IF s # <<>> /\ Head(s) = " " THEN SkipWhitespace(Tail(s)) ELSE s

\* the longest prefix of digits, read as a decimal number; NaN when empty
RECURSIVE ParseDigits(_, _, _)
ParseDigits(s, acc, seen) ==
  IF s # <<>> /\ Head(s) \in DigitChars
    THEN ParseDigits(Tail(s), acc * 10 + DigitVal(Head(s)), TRUE)
    ELSE IF seen THEN Num(acc) ELSE NaN

parseInt(str) ==
  LET s == SkipWhitespace(str)
  IN IF s # <<>> /\ Head(s) = "-"
       THEN LET v == ParseDigits(Tail(s), 0, FALSE)
            IN IF isNaN(v) THEN NaN ELSE Num(-v.val)
       ELSE IF s # <<>> /\ Head(s) = "+"
         THEN ParseDigits(Tail(s), 0, FALSE)
         ELSE ParseDigits(s, 0, FALSE)

(***************************************************************************)
(* State                                                                   *)
(***************************************************************************)
VARIABLES
  maps,                     \* table maps: the ids of the stored maps
  territories,              \* table territories: the number of rows written
  map_tiles,                \* table map_tiles: rows [id, tile_data]
  tile_cache_invalidation,  \* table tile_cache_invalidation: the rows
  invSeq,                   \* number of invalidation calls (makes row ids unique)
  req,                      \* the tile GET requests
  change,                   \* the territory change whose invalidation is due
  pre,                      \* the tile precompute (generate route)
  requestQueue,             \* TileLoader.requestQueue
  loadedTiles,              \* TileLoader.loadedTiles: the keys of the map
  loadingTiles,             \* TileLoader.loadingTiles
  images,                   \* the Image objects whose onload/onerror is due
  timers,                   \* the pending setTimeout timers of updateViewport
  viewportDebounceTimeout,  \* TileLoader.viewportDebounceTimeout (0: null)
  requestIntervalDue,       \* ms until the setInterval callback runs
  preload,                  \* isPreloading, preloadZoomLevel, preloadLoaded, preloadTotal
  poll,                     \* the pending setTimeout(checkZoomComplete, 100)
  calls,                    \* observer: updateViewport, clearCache, preloadAllTiles calls made
  lastCall,                 \* observer: the arguments of the last updateViewport call
  fired,                    \* observer: number of debounce callbacks run
  sinceDequeue,             \* observer: ms since the last dequeue (capped)
  MathRandom,               \* the global Math.random: "native" or a seeded closure
  runs,                     \* the calls of generateMap made: arguments and MapData
  landscape,                \* what the geometry of the landmasses evaluates to
  settlement,               \* the settlement whose invalidation is due
  settlements,              \* number of settlements created
  mapSize,                  \* width and height of the stored map (MapData)
  tiling,                   \* per zoom level, the bounds of the tiles generated
  gen,                      \* the map generation requests (POST map generate)
  lastGenerated,            \* observer: the id of the map inserted last
  rendered,                 \* the cells generateTile selected for the tile rendered last
  mapView                   \* observer: the view handed to the last preloadAllTiles call

serverVars == <<maps, territories, map_tiles, tile_cache_invalidation,
                invSeq, req, change, pre>>
loaderVars == <<requestQueue, loadedTiles, loadingTiles, images, timers,
                viewportDebounceTimeout, requestIntervalDue, preload, poll,
                calls, lastCall, fired, sinceDequeue>>
generationVars == <<MathRandom, runs, landscape>>
settlementVars == <<settlement, settlements>>
tilingVars == <<mapSize, tiling>>
generateVars == <<gen, lastGenerated>>
renderVars == <<rendered>>
canvasVars == <<mapView>>
vars == <<serverVars, loaderVars, generationVars, settlementVars, tilingVars,
          generateVars, renderVars, canvasVars>>

Reqs == 1..MaxReqs
NULL == "null"
NoBytes == [key |-> NULL, snapshot |-> -1]

(***************************************************************************)
(* src/unnamed/part_000 (lib/tileCache.ts)                                 *)
(***************************************************************************)
\* the five .eq() filters of the queries on tile_cache_invalidation
InvalidationMatch(row, mapId, tileX, tileY, zoomLevel, viewMode) ==
  /\ row.map_id = mapId
  /\ row.tile_x = tileX
  /\ row.tile_y = tileY
  /\ row.zoom_level = zoomLevel
  /\ row.view_mode = viewMode

InvalidationRows(mapId, tileX, tileY, zoomLevel, viewMode) ==
  {row \in tile_cache_invalidation :
     InvalidationMatch(row, mapId, tileX, tileY, zoomLevel, viewMode)}

\* .limit(1).single() yields an error and no data when no row matches
isTileInvalidated(mapId, tileX, tileY, zoomLevel, viewMode) ==
  LET error == \A row \in tile_cache_invalidation :
                 ~InvalidationMatch(row, mapId, tileX, tileY, zoomLevel, viewMode)
      data == IF error THEN NULL ELSE "row"
  IN ~error /\ data # NULL

\* a delete that forgets the view_mode filter
clearTileInvalidation_AnyView(mapId, tileX, tileY, zoomLevel, viewMode) ==
  {row \in tile_cache_invalidation :
     ~(/\ row.map_id = mapId /\ row.tile_x = tileX /\ row.tile_y = tileY
       /\ row.zoom_level = zoomLevel)}

\* the table after clearTileInvalidation's delete
clearTileInvalidation(mapId, tileX, tileY, zoomLevel, viewMode) ==
  tile_cache_invalidation \ InvalidationRows(mapId, tileX, tileY, zoomLevel, viewMode)

\* the row markTileForInvalidation inserts; seq stands for the Date.now() and
\* Math.random() parts of the id
markTileForInvalidation(mapId, tileX, tileY, zoomLevel, viewMode, reason, seq) ==
  [map_id |-> mapId, tile_x |-> tileX, tile_y |-> tileY,
   zoom_level |-> zoomLevel, view_mode |-> viewMode, reason |-> reason,
   seq |-> seq]

\* the rows invalidateCellTiles inserts: every zoom level 0..4, every view mode
invalidateCellTiles(mapId, cellX, cellY, reason, seq) ==
  {markTileForInvalidation(mapId, worldToTile(cellX, cellY, zoomLevel).x,
                           worldToTile(cellX, cellY, zoomLevel).y,
                           zoomLevel, viewMode, reason, seq) :
     zoomLevel \in 0..4, viewMode \in MapView}

invalidateTerritoryTiles(mapId, cellX, cellY, seq) ==
  invalidateCellTiles(mapId, cellX, cellY, "territory-change", seq)

(***************************************************************************)
(* Territory changes: the collaborator of the tile cache writes a          *)
(* territories row for a cell, then calls invalidateTerritoryTiles.        *)
(***************************************************************************)
\* the sites of the cells whose owner changes
CellSites == {<<600, 300>>}
NoChange == <<-1, -1>>

ChangeTerritory ==
  /\ change = NoChange
  /\ territories < MaxChanges
  /\ \E site \in CellSites : change' = site
  /\ territories' = territories + 1
  /\ UNCHANGED <<maps, map_tiles, tile_cache_invalidation, invSeq, req, pre, loaderVars, generationVars, settlementVars, tilingVars, generateVars, renderVars, canvasVars>>

InvalidateTerritory ==
  /\ change # NoChange
  /\ tile_cache_invalidation' = tile_cache_invalidation \cup
       invalidateTerritoryTiles("m1", change[1], change[2], invSeq + 1)
  /\ invSeq' = invSeq + 1
  /\ change' = NoChange
  /\ UNCHANGED <<maps, territories, map_tiles, req, pre, loaderVars, generationVars, settlementVars, tilingVars, generateVars, renderVars, canvasVars>>

(***************************************************************************)
(* src/src/app/api/map/tiles/[mapId]/[zoom]/[x]/[y]/route.ts: GET          *)
(***************************************************************************)
\* the requests sent: path parameters as character sequences, the view query
\* parameter as a string or NULL when absent
BaseRequest ==
  [mapId |-> "m1", zoom |-> <<"1">>, x |-> <<"0">>, y |-> <<"0">>,
   view |-> "political"]

\* the requests of the cache protocol: the tile of the changed cells
RawRequests == {BaseRequest}

\* the requests of the validation: one parameter of the base request varied
WideRequests ==
  {[BaseRequest EXCEPT !.zoom = z] : z \in {<<"1">>, <<"2", ".", "5">>, <<"7">>}}
  \cup {[BaseRequest EXCEPT !.x = c] : c \in {<<"9", "9">>, <<"x">>}}
  \cup {[BaseRequest EXCEPT !.y = c] : c \in {<<"-", "1">>}}
  \cup {[BaseRequest EXCEPT !.view = v] : v \in {"satellite", NULL}}
  \cup {[BaseRequest EXCEPT !.mapId = m] : m \in {"mX"}}

IdleReq ==
  [pc |-> "idle", raw |-> BaseRequest, mapId |-> NULL, zoomLevel |-> 0,
   tileX |-> 0, tileY |-> 0, viewMode |-> NULL, invalidated |-> FALSE,
   snapshot |-> -1, status |-> 0, source |-> "none", bytes |-> NoBytes,
   save |-> "none", clear |-> "none", after |-> FALSE]

KeyOf(rec) ==
  getTileKey(rec.mapId, rec.zoomLevel, rec.tileX, rec.tileY, rec.viewMode)

\* a request is over when it has answered and its fire-and-forget writes ended
Over(rec) ==
  /\ rec.pc = "done"
  /\ rec.save # "pending"
  /\ rec.clear # "pending"

\* the locals of a handler that is over are gone: what stays is what was
\* observed of it (its parameters, its answer, how its writes ended)
Settle(rec) ==
  IF Over(rec) THEN [rec EXCEPT !.snapshot = -1] ELSE rec

\* the handler answers: status, and where the bytes of the body come from
Respond(rec, status, source, bytes) ==
  [rec EXCEPT !.pc = "done", !.status = status, !.source = source,
              !.bytes = bytes]

serverRest == <<maps, territories, map_tiles, tile_cache_invalidation,
                invSeq, change, pre, loaderVars, generationVars, settlementVars, tilingVars, generateVars, renderVars, canvasVars>>

\* lines 12-42: parse and validate the parameters
Validate(rec) ==
  LET zoomLevel == parseInt(rec.raw.zoom)
      tileX == parseInt(rec.raw.x)
      tileY == parseInt(rec.raw.y)
      viewParam == IF rec.raw.view = NULL \/ rec.raw.view = "" THEN "terrain"
                   ELSE rec.raw.view
  IN IF isNaN(zoomLevel) \/ zoomLevel.val < 0 \/ zoomLevel.val > 4
       THEN Respond(rec, 400, "none", NoBytes)
     ELSE IF isNaN(tileX) \/ isNaN(tileY)
       THEN Respond(rec, 400, "none", NoBytes)
     ELSE IF viewParam \notin MapView
       THEN Respond(rec, 400, "none", NoBytes)
     ELSE [rec EXCEPT !.pc = "check", !.mapId = rec.raw.mapId,
                      !.zoomLevel = zoomLevel.val, !.tileX = tileX.val,
                      !.tileY = tileY.val, !.viewMode = viewParam]

\* a request arrives; after: every request before it was over by then
GetStart(r, requests) ==
  /\ req[r].pc = "idle"
  /\ \A q \in Reqs : q < r => req[q].pc # "idle"
  /\ \E raw \in requests :
       req' = [req EXCEPT ![r] =
                 Settle(Validate([IdleReq EXCEPT
                   !.raw = raw,
                   !.after = \A q \in Reqs : q < r => Over(req[q])]))]
  /\ UNCHANGED serverRest

\* line 45: const invalidated = await isTileInvalidated(...)
GetCheckInvalidated(r) ==
  /\ req[r].pc = "check"
  /\ LET invalidated == isTileInvalidated(req[r].mapId, req[r].tileX, req[r].tileY,
                                          req[r].zoomLevel, req[r].viewMode)
     IN req' = [req EXCEPT ![r].invalidated = invalidated,
                           ![r].pc = IF invalidated THEN "loadmap" ELSE "cache"]
  /\ UNCHANGED serverRest

CachedRows(r) == {row \in map_tiles : row.id = KeyOf(req[r])}

\* lines 48-92: serve the cached row; a row whose buffer cannot be converted
\* (bufferError) falls through to regeneration
GetCacheLookup(r) ==
  /\ req[r].pc = "cache"
  /\ \/ /\ CachedRows(r) # {}
        /\ \E row \in CachedRows(r) :
             req' = [req EXCEPT ![r] =
                       Settle(Respond(req[r], 200, "cache", row.tile_data))]
     \/ /\ CachedRows(r) # {}
        /\ req' = [req EXCEPT ![r].pc = "loadmap"]
     \/ /\ CachedRows(r) = {}
        /\ req' = [req EXCEPT ![r].pc = "loadmap"]
  /\ UNCHANGED serverRest

\* lines 95-106: load the map, 404 when it is not stored
GetLoadMap(r) ==
  /\ req[r].pc = "loadmap"
  /\ IF req[r].mapId \in maps
       THEN req' = [req EXCEPT ![r].pc = "loadsnapshot"]
       ELSE req' = [req EXCEPT ![r] =
                      Settle(Respond(req[r], 404, "none", NoBytes))]
  /\ UNCHANGED serverRest

\* lines 119-135: load territories (and players) into territoriesMap
GetLoadSnapshot(r) ==
  /\ req[r].pc = "loadsnapshot"
  /\ req' = [req EXCEPT ![r].snapshot = territories, ![r].pc = "generate"]
  /\ UNCHANGED serverRest

\* lines 137-206: render, start the upsert and the clear without awaiting
\* them, answer with the rendered bytes; a render that throws answers 500
GetGenerate(r) ==
  /\ req[r].pc = "generate"
  /\ \/ LET tileBuffer == generateTile(req[r].mapId, req[r].tileX, req[r].tileY,
                                       req[r].zoomLevel, req[r].viewMode,
                                       req[r].snapshot)
        IN req' = [req EXCEPT ![r] =
                     [Respond(req[r], 200, "render", tileBuffer) EXCEPT
                        !.snapshot = -1,
                        !.save = "pending",
                        !.clear = IF req[r].invalidated THEN "pending" ELSE "none"]]
     \/ req' = [req EXCEPT ![r] = Settle(Respond(req[r], 500, "none", NoBytes))]
  /\ UNCHANGED serverRest

\* the table after the upsert of a row (onConflict: "id")
Upsert(table, row) == {old \in table : old.id # row.id} \cup {row}

\* lines 167-186: the upsert reaches the table, or fails and is only logged
GetSaveTile(r) ==
  /\ req[r].save = "pending"
  /\ \/ /\ map_tiles' = Upsert(map_tiles,
             [id |-> KeyOf(req[r]), tile_data |-> req[r].bytes])
        /\ req' = [req EXCEPT ![r] = Settle([req[r] EXCEPT !.save = "ok"])]
     \/ /\ map_tiles' = map_tiles
        /\ req' = [req EXCEPT ![r] = Settle([req[r] EXCEPT !.save = "failed"])]
  /\ UNCHANGED <<maps, territories, tile_cache_invalidation, invSeq, change, pre, loaderVars, generationVars, settlementVars, tilingVars, generateVars, renderVars, canvasVars>>

\* lines 189-193: the delete reaches the table, or fails and is only logged
GetClearInvalidation(r) ==
  /\ req[r].clear = "pending"
  /\ \/ /\ tile_cache_invalidation' =
             clearTileInvalidation(req[r].mapId, req[r].tileX, req[r].tileY,
                                   req[r].zoomLevel, req[r].viewMode)
        /\ req' = [req EXCEPT ![r] = Settle([req[r] EXCEPT !.clear = "ok"])]
     \/ /\ tile_cache_invalidation' = tile_cache_invalidation
        /\ req' = [req EXCEPT ![r] = Settle([req[r] EXCEPT !.clear = "failed"])]
  /\ UNCHANGED <<maps, territories, map_tiles, invSeq, change, pre, loaderVars, generationVars, settlementVars, tilingVars, generateVars, renderVars, canvasVars>>

(***************************************************************************)
(* src/src/app/api/map/tiles/generate/route.ts: POST (tile precompute)     *)
(***************************************************************************)
TILE_SIZE == 512
batchSize == 50
Views == <<"terrain", "political", "resources">>

\* lines 72-76 and 98-102: map.width and map.height are those of the stored map
precomputeTilesX(zoomLevel) == CeilDiv(mapSize.width, TILE_SIZE * ZOOM_MULTIPLIERS[zoomLevel + 1])
precomputeTilesY(zoomLevel) == CeilDiv(mapSize.height, TILE_SIZE * ZOOM_MULTIPLIERS[zoomLevel + 1])

\* tiles generated before zoom level z is entered
RECURSIVE precomputeOffset(_)
precomputeOffset(zoomLevel) ==
  IF zoomLevel = 0 THEN 0
  ELSE precomputeOffset(zoomLevel - 1)
       + precomputeTilesX(zoomLevel - 1) * precomputeTilesY(zoomLevel - 1) * 3

precomputeTotal == precomputeOffset(5)

\* position of a tile in the order of the four nested loops
precomputeIndex(zoomLevel, tileX, tileY, v) ==
  precomputeOffset(zoomLevel)
  + (tileX * precomputeTilesY(zoomLevel) + tileY) * 3 + (v - 1)

\* the rows pushed with index in from..to-1
precomputeRows(mapId, snapshot, from, to) ==
  {[id |-> getTileKey(mapId, z, tx, ty, Views[v]),
    tile_data |-> generateTile(mapId, tx, ty, z, Views[v], snapshot)] :
     <<z, tx, ty, v>> \in
       {t \in (0..4) \X (0..(precomputeTilesX(0) - 1))
                     \X (0..(precomputeTilesY(0) - 1)) \X (1..3) :
          /\ t[2] < precomputeTilesX(t[1])
          /\ t[3] < precomputeTilesY(t[1])
          /\ precomputeIndex(t[1], t[2], t[3], t[4]) >= from
          /\ precomputeIndex(t[1], t[2], t[3], t[4]) < to}}

UpsertAll(table, rows) ==
  {old \in table : \A row \in rows : old.id # row.id} \cup rows

IdlePre == [pc |-> "idle", snapshot |-> -1, done |-> 0]

\* lines 26-66: load the map, the territories and the players
PrecomputeLoad ==
  /\ pre.pc = "idle"
  /\ "m1" \in maps
  /\ pre' = [pre EXCEPT !.pc = "batches", !.snapshot = territories]
  /\ UNCHANGED <<maps, territories, map_tiles, tile_cache_invalidation,
                 invSeq, req, change, loaderVars, generationVars, settlementVars, tilingVars, generateVars, renderVars, canvasVars>>

\* lines 98-156: upsert the next batch of 50 rendered tiles, at the end the
\* remaining ones
PrecomputeUpsert ==
  /\ pre.pc = "batches"
  /\ LET to == Min(pre.done + batchSize, precomputeTotal)
     IN /\ map_tiles' = UpsertAll(map_tiles,
                          precomputeRows("m1", pre.snapshot, pre.done, to))
        /\ pre' = [pre EXCEPT !.done = to,
                              !.pc = IF to >= precomputeTotal THEN "done"
                                     ELSE "batches"]
  /\ UNCHANGED <<maps, territories, tile_cache_invalidation, invSeq, req, change, loaderVars, generationVars, settlementVars, tilingVars, generateVars, renderVars, canvasVars>>

(***************************************************************************)
(* src/src/lib/tileLoader.ts: TileLoader                                   *)
(***************************************************************************)
MAX_REQUESTS_PER_SECOND == 20
VIEWPORT_DEBOUNCE_MS == 50
checkZoomCompleteMs == 100

\* a processor that ticks twice as often
intervalMs_Half == 500 \div MAX_REQUESTS_PER_SECOND

\* line 229
intervalMs == 1000 \div MAX_REQUESTS_PER_SECOND

\* time passes in steps of half the shortest timer
TimeStep == VIEWPORT_DEBOUNCE_MS \div 2

\* the observer sinceDequeue stops counting here
SinceCap == 2 * VIEWPORT_DEBOUNCE_MS

\* scale is given in hundredths
scaleToZoomLevel(scale) ==
  IF scale < 50 THEN 0
  ELSE IF scale < 100 THEN 1
  ELSE IF scale < 200 THEN 2
  ELSE IF scale < 400 THEN 3
  ELSE 4

\* the coordinates pushed by "for x = minTileX..maxTileX, for y = minTileY..maxTileY"
TileGrid(minTileX, maxTileX, minTileY, maxTileY, zoomLevel) ==
  LET nx == Max(0, maxTileX - minTileX + 1)
      ny == Max(0, maxTileY - minTileY + 1)
  IN [i \in 1..(nx * ny) |->
        [x |-> minTileX + ((i - 1) \div ny),
         y |-> minTileY + ((i - 1) % ny),
         zoom |-> zoomLevel]]

\* lines 84-110: both loops run up to and including the rounded-up maximum
TileLoader_getTilesForViewport(viewport, zoomLevel) ==
  LET multiplier == ZOOM_MULTIPLIERS[zoomLevel + 1]
      tileSize == getTileSize(zoomLevel)
      wts == tileSize * multiplier
      minTileX == Max(0, viewport.x) \div wts
      maxTileX == CeilDiv(Min(MapWidth, viewport.x + viewport.width), wts)
      minTileY == Max(0, viewport.y) \div wts
      maxTileY == CeilDiv(Min(MapHeight, viewport.y + viewport.height), wts)
  IN TileGrid(minTileX, maxTileX, minTileY, maxTileY, zoomLevel)

\* lines 115-132, for a loader constructed with mapWidth and mapHeight
TileLoader_getAllTilesForZoom(mapWidth, mapHeight, zoomLevel) ==
  LET wts == getTileSize(zoomLevel) * ZOOM_MULTIPLIERS[zoomLevel + 1]
      maxTileX == CeilDiv(mapWidth, wts)
      maxTileY == CeilDiv(mapHeight, wts)
  IN TileGrid(0, maxTileX - 1, 0, maxTileY - 1, zoomLevel)

\* lines 115-132, for the loader of the map of MapWidth x MapHeight
getAllTilesForZoom(zoomLevel) ==
  TileLoader_getAllTilesForZoom(MapWidth, MapHeight, zoomLevel)

\* lines 137-142: the string `${zoom}-${x}-${y}-${viewMode}` as its parts
TileLoader_getTileKey(coordinate, viewMode) ==
  [zoom |-> coordinate.zoom, x |-> coordinate.x, y |-> coordinate.y,
   view |-> viewMode]

TileRequest(tile, mode) ==
  [mapId |-> "m1", zoom |-> tile.zoom, x |-> tile.x, y |-> tile.y, view |-> mode]

RequestKey(request) ==
  TileLoader_getTileKey([x |-> request.x, y |-> request.y, zoom |-> request.zoom],
                        request.view)

\* the loops of lines 180-221 and 375-391: a request is pushed for every tile
\* that is neither loaded nor loading
PushRequests(queue, tiles, mode) ==
  LET requests == [i \in DOMAIN tiles |-> TileRequest(tiles[i], mode)]
      Wanted(request) == /\ RequestKey(request) \notin loadedTiles
                         /\ RequestKey(request) \notin loadingTiles
  IN queue \o SelectSeq(requests, Wanted)

\* lines 159-221: what the debounce callback leaves in the queue
ViewportRequests(queue, call) ==
  LET zoomLevel == scaleToZoomLevel(call.scale)
      currentZoomTiles == TileLoader_getTilesForViewport(call.viewport, zoomLevel)
      otherZoomTiles ==
        IF call.progressive /\ zoomLevel > 0
        THEN TileLoader_getTilesForViewport(call.viewport, zoomLevel - 1)
        ELSE <<>>
  IN PushRequests(PushRequests(queue, currentZoomTiles, call.viewMode),
                  otherZoomTiles, call.viewMode)

\* the calls made on the loader
\* a viewport panned past the top edge of the map: one row of tiles
Viewports == {[x |-> 0, y |-> -250, width |-> 400, height |-> 200]}
ViewportCalls ==
  {[viewport |-> v, scale |-> sc, viewMode |-> "terrain", progressive |-> pr] :
     v \in Viewports, sc \in {25, 75}, pr \in {TRUE}}
NoCall == [viewport |-> NULL, scale |-> 0, viewMode |-> NULL, progressive |-> FALSE]
NoPoll == [zoomLevel |-> -1, viewMode |-> NULL, due |-> -1]

\* an updateViewport that leaves the pending timer running
updateViewport_NoClear(viewport, scale, viewMode, progressive) ==
  /\ calls < MaxCalls
  /\ calls' = calls + 1
  /\ LET call == [viewport |-> viewport, scale |-> scale, viewMode |-> viewMode,
                  progressive |-> progressive]
     IN /\ timers' = timers \cup {[id |-> calls + 1, call |-> call,
                                   due |-> VIEWPORT_DEBOUNCE_MS]}
        /\ viewportDebounceTimeout' = calls + 1
        /\ lastCall' = call
  /\ UNCHANGED <<requestQueue, loadedTiles, loadingTiles, images,
                 requestIntervalDue, preload, poll, fired, sinceDequeue, serverVars, generationVars, settlementVars, tilingVars, generateVars, renderVars, canvasVars>>

\* lines 147-158 and 222: cancel the pending timer, set a new one
updateViewport(viewport, scale, viewMode, progressive) ==
  /\ calls < MaxCalls
  /\ calls' = calls + 1
  /\ LET kept == {t \in timers : t.id # viewportDebounceTimeout}
         call == [viewport |-> viewport, scale |-> scale, viewMode |-> viewMode,
                  progressive |-> progressive]
     IN /\ timers' = kept \cup {[id |-> calls + 1, call |-> call,
                                 due |-> VIEWPORT_DEBOUNCE_MS]}
        /\ viewportDebounceTimeout' = calls + 1
        /\ lastCall' = call
  /\ UNCHANGED <<requestQueue, loadedTiles, loadingTiles, images,
                 requestIntervalDue, preload, poll, fired, sinceDequeue, serverVars, generationVars, settlementVars, tilingVars, generateVars, renderVars, canvasVars>>

\* lines 158-222: the timer callback
DebounceFire ==
  \E t \in timers :
    /\ t.due = 0
    /\ timers' = timers \ {t}
    /\ requestQueue' = ViewportRequests(requestQueue, t.call)
    /\ fired' = fired + 1
    /\ UNCHANGED <<loadedTiles, loadingTiles, images, viewportDebounceTimeout,
                   requestIntervalDue, preload, poll, calls, lastCall,
                   sinceDequeue, serverVars, generationVars, settlementVars, tilingVars, generateVars, renderVars, canvasVars>>

\* lines 231-238 and 244-300: the interval callback takes one request and
\* loadTile starts its image unless the key is loading
RequestTick ==
  /\ requestIntervalDue = 0
  /\ requestIntervalDue' = intervalMs
  /\ IF requestQueue = <<>>
     THEN UNCHANGED <<requestQueue, loadingTiles, images, sinceDequeue>>
     ELSE LET request == Head(requestQueue)
              key == RequestKey(request)
          IN /\ requestQueue' = Tail(requestQueue)
             /\ sinceDequeue' = 0
             /\ IF key \in loadingTiles
                THEN UNCHANGED <<loadingTiles, images>>
                ELSE /\ loadingTiles' = loadingTiles \cup {key}
                     /\ images' = images (+) SetToBag({key})
  /\ UNCHANGED <<loadedTiles, timers, viewportDebounceTimeout, preload, poll,
                 calls, lastCall, fired, serverVars, generationVars, settlementVars, tilingVars, generateVars, renderVars, canvasVars>>

\* lines 270-298: onload and onerror make the same changes to the loader
ImageSettles ==
  \E key \in BagToSet(images) :
    /\ images' = images (-) SetToBag({key})
    /\ loadedTiles' = loadedTiles \cup {key}
    /\ loadingTiles' = loadingTiles \ {key}
    /\ preload' = IF preload.isPreloading
                  THEN [preload EXCEPT !.preloadLoaded = @ + 1]
                  ELSE preload
    /\ UNCHANGED <<requestQueue, timers, viewportDebounceTimeout,
                   requestIntervalDue, poll, calls, lastCall, fired,
                   sinceDequeue, serverVars, generationVars, settlementVars, tilingVars, generateVars, renderVars, canvasVars>>

\* lines 320-324
clearCache ==
  /\ calls < MaxCalls
  /\ calls' = calls + 1
  /\ loadedTiles' = {}
  /\ loadingTiles' = {}
  /\ requestQueue' = <<>>
  /\ UNCHANGED <<images, timers, viewportDebounceTimeout, requestIntervalDue,
                 preload, poll, lastCall, fired, sinceDequeue, serverVars, generationVars, settlementVars, tilingVars, generateVars, renderVars, canvasVars>>

\* a count that takes the tiles still loading for loaded
CountLoadedOrLoading(tiles, viewMode) ==
  Cardinality({i \in DOMAIN tiles :
                 TileLoader_getTileKey(tiles[i], viewMode)
                   \in (loadedTiles \cup loadingTiles)})

\* the number of entries of a sequence of tiles that are loaded
CountLoaded(tiles, viewMode) ==
  Cardinality({i \in DOMAIN tiles :
                 TileLoader_getTileKey(tiles[i], viewMode) \in loadedTiles})

RECURSIVE SumTiles(_)
SumTiles(zoom) ==
  IF zoom < 0 THEN 0 ELSE Len(getAllTilesForZoom(zoom)) + SumTiles(zoom - 1)

\* lines 353-414 up to the first poll: what preloadZoomLevelSequentially does
\* to the preload fields pl
preloadZoomLevelSequentially(pl, zoomLevel, viewMode) ==
  IF zoomLevel > 4
  THEN /\ preload' = [pl EXCEPT !.isPreloading = FALSE]
       /\ poll' = NoPoll
       /\ requestQueue' = requestQueue
  ELSE LET tiles == getAllTilesForZoom(zoomLevel)
       IN /\ preload' = [pl EXCEPT !.preloadZoomLevel = zoomLevel,
                                   !.preloadLoaded = @ + CountLoaded(tiles, viewMode)]
          /\ requestQueue' = PushRequests(requestQueue, tiles, viewMode)
          /\ poll' = [zoomLevel |-> zoomLevel, viewMode |-> viewMode,
                      due |-> checkZoomCompleteMs]

\* lines 329-348
preloadAllTiles(viewMode) ==
  /\ calls < MaxCalls
  /\ calls' = calls + 1
  /\ IF preload.isPreloading
     THEN UNCHANGED <<preload, poll, requestQueue>>
     ELSE preloadZoomLevelSequentially(
            [isPreloading |-> TRUE, preloadLoaded |-> 0, preloadZoomLevel |-> 0,
             preloadTotal |-> SumTiles(4)], 0, viewMode)
  /\ mapView' = viewMode
  /\ UNCHANGED <<loadedTiles, loadingTiles, images, timers,
                 viewportDebounceTimeout, requestIntervalDue, lastCall, fired,
                 sinceDequeue, serverVars, generationVars, settlementVars, tilingVars, generateVars, renderVars>>

\* lines 394-410: checkZoomComplete
PreloadPoll ==
  /\ poll # NoPoll
  /\ poll.due = 0
  /\ LET tiles == getAllTilesForZoom(poll.zoomLevel)
         zoomTotal == Len(tiles)
         currentLoaded == CountLoaded(tiles, poll.viewMode)
     IN IF currentLoaded >= zoomTotal
        THEN preloadZoomLevelSequentially(preload, poll.zoomLevel + 1, poll.viewMode)
        ELSE /\ poll' = [poll EXCEPT !.due = checkZoomCompleteMs]
             /\ UNCHANGED <<preload, requestQueue>>
  /\ UNCHANGED <<loadedTiles, loadingTiles, images, timers,
                 viewportDebounceTimeout, requestIntervalDue, calls, lastCall,
                 fired, sinceDequeue, serverVars, generationVars, settlementVars, tilingVars, generateVars, renderVars, canvasVars>>

\* time passes while no timer is due
Advance ==
  /\ requestIntervalDue > 0
  /\ \A t \in timers : t.due > 0
  /\ poll = NoPoll \/ poll.due > 0
  /\ requestIntervalDue' = Max(0, requestIntervalDue - TimeStep)
  /\ timers' = {[t EXCEPT !.due = Max(0, @ - TimeStep)] : t \in timers}
  /\ poll' = IF poll = NoPoll THEN poll
             ELSE [poll EXCEPT !.due = Max(0, @ - TimeStep)]
  /\ sinceDequeue' = Min(SinceCap, sinceDequeue + TimeStep)
  /\ UNCHANGED <<requestQueue, loadedTiles, loadingTiles, images,
                 viewportDebounceTimeout, preload, calls, lastCall, fired,
                 serverVars, generationVars, settlementVars, tilingVars, generateVars, renderVars, canvasVars>>

(***************************************************************************)
(* src/src/lib/mapGeneration.ts: the seed hash and the random streams.     *)
(* Numbers of the program are doubles; the model keeps every intermediate  *)
(* value below 2^31, so products are reduced before they are formed.       *)
(***************************************************************************)
\* String.charCodeAt of the characters the seeds are made of
charCodeAt(c) ==
  CASE c = "a" -> 97 [] c = "b" -> 98 [] c = "c" -> 99 [] c = "z" -> 122

\* one round of the loop of lines 1369-1372 on the two 16-bit halves of the
\* 32-bit pattern of seedValue: ((seedValue << 5) - seedValue) + code is
\* 31 * seedValue + code, and seedValue & seedValue keeps its low 32 bits
HashStep(halves, code) ==
  LET lo == 31 * halves.lo + code
      hi == 31 * halves.hi + (lo \div 65536)
  IN [hi |-> hi % 65536, lo |-> lo % 65536]

RECURSIVE HashHalves(_, _)
HashHalves(seed, halves) ==
  IF seed = <<>> THEN halves
  ELSE HashHalves(Tail(seed), HashStep(halves, charCodeAt(Head(seed))))

\* the signed 32-bit integer of a bit pattern
ToInt32(halves) ==
  IF halves.hi >= 32768 THEN (halves.hi - 65536) * 65536 + halves.lo
  ELSE halves.hi * 65536 + halves.lo

\* lines 1368-1372: seedValue after the loop over the characters of the seed
hashSeed(seed) == ToInt32(HashHalves(seed, [hi |-> 0, lo |-> 0]))

\* the modulus of the generators
LcgModulus == 233280

\* (a * 9301) % 233280 for 0 <= a < 233280
MulMod9301(a) == ((((a * 93) % LcgModulus) * 100) + a) % LcgModulus

\* rng = (rng * 9301 + 49297) % 233280: the remainder of % has the sign of
\* the dividend, which is negative from rng = -6 downwards
LcgNext(rng) ==
  IF rng >= 0
    THEN (MulMod9301(rng % LcgModulus) + 49297) % LcgModulus
  ELSE IF rng >= -5
    THEN rng * 9301 + 49297
  ELSE LET magnitude == (LcgModulus - (rng % LcgModulus)) % LcgModulus
       IN -((MulMod9301(magnitude) + LcgModulus - 49297) % LcgModulus)

\* the first n values of rng a generator started at rng takes; the number
\* the generator returns is rng / 233280
RECURSIVE LcgStream(_, _)
LcgStream(rng, n) ==
  IF n = 0 THEN <<>>
  ELSE IF n = 1 THEN <<LcgNext(rng)>>
  ELSE LET first == LcgStream(rng, n \div 2)
       IN first \o LcgStream(first[n \div 2], n - (n \div 2))

(***************************************************************************)
(* src/src/lib/mapGeneration.ts: continents and islands.  Their positions  *)
(* and sizes are products of sines, cosines and square roots of the values *)
(* drawn; the model keeps, for every field, the value of rng it was drawn  *)
(* from.                                                                   *)
(***************************************************************************)
\* lines 1059-1102: six values are drawn for every continent, in this order
generateContinents(width, height, count, seed) ==
  LET drawn == LcgStream(seed, 6 * count)
  IN [continents |->
        [n \in 1..count |->
           [angle |-> drawn[6 * n - 5], distanceFromCenter |-> drawn[6 * n - 4],
            baseRadius |-> drawn[6 * n - 3], radiusX |-> drawn[6 * n - 2],
            radiusY |-> drawn[6 * n - 1], rotation |-> drawn[6 * n],
            seed |-> seed + (n - 1) * 12345]],
      rng |-> seed,
      drawn |-> drawn]

\* lines 1131-1148: the attempts made for one island; an attempt draws centerX
\* and centerY and is too close when a continent is nearer than its mean
\* radius, which can only happen when there is a continent.  rejected is the
\* number of positions the distance test turns down.
islandAttempts(continents, rejected) ==
  IF continents = <<>> THEN 1 ELSE Min(rejected + 1, 50)

\* lines 1124-1160: the islands i, i + 1, .. count - 1, the generator being
\* at rng; an island whose attempts reached 50 is skipped
RECURSIVE placeIslands(_, _, _, _, _, _)
placeIslands(i, count, rng, seed, continents, rejected) ==
  IF i >= count THEN [islands |-> <<>>, drawn |-> <<>>]
  ELSE
    LET attempts == islandAttempts(continents, rejected)
        tried == LcgStream(rng, 2 * attempts)
        skipped == attempts >= 50
        radius == LcgNext(tried[2 * attempts])
        rest == placeIslands(i + 1, count,
                             IF skipped THEN tried[2 * attempts] ELSE radius,
                             seed, continents, rejected)
    IN IF skipped
         THEN [islands |-> rest.islands, drawn |-> tried \o rest.drawn]
         ELSE [islands |->
                 <<[centerX |-> tried[2 * attempts - 1],
                    centerY |-> tried[2 * attempts],
                    radius |-> radius,
                    seed |-> seed + i * 54321]>> \o rest.islands,
               drawn |-> tried \o <<radius>> \o rest.drawn]

\* lines 1105-1163
generateIslands(width, height, count, seed, continents, rejected) ==
  LET placed == placeIslands(0, count, seed + 99999, seed, continents, rejected)
  IN [islands |-> placed.islands, rng |-> seed + 99999, drawn |-> placed.drawn]

\* what the floating point geometry of a landscape evaluates to: how many
\* island positions the distance test of generateIslands turns down, and the
\* shape of the elevation field (on a scale of integers)
Landscapes ==
  [rejected : {0, 1, 49, 50}, field : {"plateau", "ridge", "peak"}]

\* lines 1248-1278: the maximum over the continents and the islands, 0 when
\* there is none; else the value of the landscape's field at the cell
calculateElevation(row, col, continents, islands, field) ==
  IF continents = <<>> /\ islands = <<>> THEN 0
  ELSE CASE field = "plateau" -> 1
         [] field = "ridge" -> col
         [] field = "peak" ->
              Max(0, 3 - (IF row >= 1 THEN row - 1 ELSE 1 - row)
                       - (IF col >= 1 THEN col - 1 ELSE 1 - col))

(***************************************************************************)
(* src/src/lib/mapGeneration.ts: the hexagon grid.  A centre is            *)
(* (hexSize * SQRT3 * k / 2, hexSize * 3 * row / 2) with k = 2 * col +     *)
(* row % 2; the model keeps k and row, and compares lengths that hold      *)
(* SQRT3 by their squares, which is exact.                                 *)
(***************************************************************************)
\* lines 934-938: hexToPixel, as the pair (k, row)
hexToPixel(row, col, hexSize) == [k |-> 2 * col + (row % 2), row |-> row]

\* lines 943-953: the six vertices at hexSize from the centre, the first one
\* above it: the polygon is given by its centre and hexSize
generateHexagonVertices(center, hexSize) ==
  [k |-> center.k, row |-> center.row, hexSize |-> hexSize]

\* one table of offsets for the rows of both parities
getHexNeighbors_OneTable(row, col) ==
  <<<<row - 1, col - 1>>, <<row - 1, col>>, <<row, col + 1>>,
    <<row + 1, col>>, <<row + 1, col - 1>>, <<row, col - 1>>>>

\* lines 959-982
getHexNeighbors(row, col) ==
  IF row % 2 = 1
    THEN <<<<row - 1, col>>, <<row - 1, col + 1>>, <<row, col + 1>>,
           <<row + 1, col + 1>>, <<row + 1, col>>, <<row, col - 1>>>>
    ELSE <<<<row - 1, col - 1>>, <<row - 1, col>>, <<row, col + 1>>,
           <<row + 1, col>>, <<row + 1, col - 1>>, <<row, col - 1>>>>

\* Math.ceil(width / (hexSize * SQRT3)): the least n with
\* n * hexSize * SQRT3 >= width
CeilDivSqrt3(width, hexSize) ==
  CHOOSE n \in 0..width :
    /\ 3 * n * n * hexSize * hexSize >= width * width
    /\ n > 0 => 3 * (n - 1) * (n - 1) * hexSize * hexSize < width * width

\* lines 1394-1399
gridCols(width, hexSize) == CeilDivSqrt3(width, hexSize) + 1
gridRows(height, hexSize) == CeilDiv(height, hexSize * 2) + 1

\* lines 1418-1421: the centre is more than hexSize outside of the map
\* (centerX and centerY are never negative)
outsideMap(center, width, height, hexSize) ==
  \/ 3 * hexSize * hexSize * center.k * center.k
       > 4 * (width + hexSize) * (width + hexSize)
  \/ 3 * hexSize * center.row > 2 * (height + hexSize)

\* lines 1413-1447: the cells in the order they are pushed, row by row
gridCells(width, height, hexSize, continents, islands, field) ==
  LET cols == gridCols(width, hexSize)
      rows == gridRows(height, hexSize)
      at(i) == [row |-> (i - 1) \div cols, col |-> (i - 1) % cols]
      all == [i \in 1..(rows * cols) |->
                LET row == at(i).row
                    col == at(i).col
                    center == hexToPixel(row, col, hexSize)
                IN [cell |-> [id |-> <<row, col>>,
                              site |-> center,
                              polygon |-> generateHexagonVertices(center, hexSize),
                              neighbors |-> <<>>,
                              terrain |-> "water",
                              tileType |-> NULL,
                              resource |-> NULL],
                    elevation |-> calculateElevation(row, col, continents,
                                                     islands, field),
                    row |-> row,
                    col |-> col]]
      kept(c) == ~outsideMap(c.cell.site, width, height, hexSize)
  IN SelectSeq(all, kept)

\* the cells of elevation e, e - 1, .. 0, each group in the order it has
RECURSIVE elevationGroups(_, _)
elevationGroups(cellsWithElevation, e) ==
  LET has(c) == c.elevation = e
  IN IF e < 0 THEN <<>>
     ELSE SelectSeq(cellsWithElevation, has)
            \o elevationGroups(cellsWithElevation, e - 1)

\* line 1452: sort by elevation, highest first; Array.prototype.sort is
\* stable, so cells of equal elevation keep their order
sortByElevation(cellsWithElevation) ==
  LET highest == CHOOSE e \in 0..(Len(cellsWithElevation) + 3) :
                   /\ \A i \in DOMAIN cellsWithElevation :
                        cellsWithElevation[i].elevation <= e
                   /\ e > 0 => \E i \in DOMAIN cellsWithElevation :
                                 cellsWithElevation[i].elevation = e
  IN elevationGroups(cellsWithElevation, highest)

(***************************************************************************)
(* src/src/lib/mapGeneration.ts: terrain, tile type and resource.          *)
(***************************************************************************)
\* lines 99-109 of src/unnamed/part_006, in percent
RESOURCE_SCARCITY ==
  [WHEAT |-> 12, WATER |-> 10, WOOD |-> 15, COTTON |-> 10, BRONZE |-> 8,
   IRON |-> 8, GOLD |-> 2, COAL |-> 8, WILDLIFE |-> 12]

\* the distribution of the tile types, in percent
TILE_TYPES ==
  [PLAINS |-> 40, WOODS |-> 20, MOUNTAINS |-> 10, HILLS |-> 10,
   DESERT |-> 10, SWAMP |-> 10]

\* rand < cumulative, for rand = rng / 233280 and cumulative in percent
Below(rand, cumulative) == rand * 100 < cumulative * LcgModulus

\* lines 1281-1307
assignTileType(rand, tileTypes) ==
  IF Below(rand, tileTypes.PLAINS) THEN "plains"
  ELSE IF Below(rand, tileTypes.PLAINS + tileTypes.WOODS) THEN "woods"
  ELSE IF Below(rand, tileTypes.PLAINS + tileTypes.WOODS + tileTypes.MOUNTAINS)
    THEN "mountains"
  ELSE IF Below(rand, tileTypes.PLAINS + tileTypes.WOODS + tileTypes.MOUNTAINS
                        + tileTypes.HILLS)
    THEN "hills"
  ELSE IF Below(rand, tileTypes.PLAINS + tileTypes.WOODS + tileTypes.MOUNTAINS
                        + tileTypes.HILLS + tileTypes.DESERT)
    THEN "desert"
  ELSE IF Below(rand, tileTypes.PLAINS + tileTypes.WOODS + tileTypes.MOUNTAINS
                        + tileTypes.HILLS + tileTypes.DESERT + tileTypes.SWAMP)
    THEN "swamp"
  ELSE "plains"

\* lines 1311-1353: NULL stands for undefined
assignResource(terrain, rand, resourceScarcity) ==
  LET s == resourceScarcity
  IN IF terrain # "land" THEN NULL
     ELSE IF Below(rand, s.GOLD) THEN "gold"
     ELSE IF Below(rand, s.GOLD + s.BRONZE) THEN "bronze"
     ELSE IF Below(rand, s.GOLD + s.BRONZE + s.IRON) THEN "iron"
     ELSE IF Below(rand, s.GOLD + s.BRONZE + s.IRON + s.COAL) THEN "coal"
     ELSE IF Below(rand, s.GOLD + s.BRONZE + s.IRON + s.COAL + s.WHEAT)
       THEN "wheat"
     ELSE IF Below(rand, s.GOLD + s.BRONZE + s.IRON + s.COAL + s.WHEAT + s.WOOD)
       THEN "wood"
     ELSE IF Below(rand, s.GOLD + s.BRONZE + s.IRON + s.COAL + s.WHEAT + s.WOOD
                           + s.COTTON)
       THEN "cotton"
     ELSE IF Below(rand, s.GOLD + s.BRONZE + s.IRON + s.COAL + s.WHEAT + s.WOOD
                           + s.COTTON + s.WILDLIFE)
       THEN "wildlife"
     ELSE IF Below(rand, s.GOLD + s.BRONZE + s.IRON + s.COAL + s.WHEAT + s.WOOD
                           + s.COTTON + s.WILDLIFE + s.WATER)
       THEN "water"
     ELSE NULL

(***************************************************************************)
(* src/src/lib/mapGeneration.ts: generateMap                               *)
(***************************************************************************)
\* the Math.random of the runtime, and the closure random of line 1376
NativeMathRandom == [native |-> TRUE, rng |-> 0]
SeededRandom(seedValue) == [native |-> FALSE, rng |-> seedValue]

\* Math.random is left as it was
MathRandomDuring_NotOverridden(originalRandom, random) == originalRandom

\* line 1383: the function Math.random is while the map is generated
MathRandomDuring(originalRandom, random) == random

\* the first n numbers Math.random() returns (as rng of rng / 233280); the
\* native function returns numbers the program has no hold on
mathRandomCalls(fn, n, native) ==
  IF fn.native THEN [i \in 1..n |-> native] ELSE LcgStream(fn.rng, n)

\* line 1457: Math.floor(totalCells * landTilePercentage), in percent
landCellCountOf(totalCells, landTilePercentage) ==
  (totalCells * landTilePercentage) \div 100

\* a fixed elevation cutoff
isLand_ByElevation(i, landCellCount, elevation) == elevation > 0

\* line 1475: i < landCellCount, for the position i (from 1) of the cell
isLand(i, landCellCount, elevation) == i <= landCellCount

\* tile type and resource are assigned before the terrain is looked at
assignTerrain_AttributesFirst(cellData, i, landCellCount, rands, tileTypes, resourceScarcity) ==
  [cellData.cell EXCEPT
     !.terrain = IF isLand(i, landCellCount, cellData.elevation)
                 THEN "land" ELSE "water",
     !.tileType = assignTileType(LcgNext(i), tileTypes),
     !.resource = assignResource("land", LcgNext(i + 1), resourceScarcity)]

\* lines 1467-1492: the cell at position i (from 1) of the sorted cells; a
\* land cell takes two numbers from Math.random, first for its tile type
assignTerrain(cellData, i, landCellCount, rands, tileTypes, resourceScarcity) ==
  IF isLand(i, landCellCount, cellData.elevation)
    THEN [cellData.cell EXCEPT
            !.terrain = "land",
            !.tileType = assignTileType(rands[2 * i - 1], tileTypes),
            !.resource = assignResource("land", rands[2 * i], resourceScarcity)]
    ELSE [cellData.cell EXCEPT !.terrain = "water"]

\* lines 1514-1529: the ids of the neighbours that are in cellMap
neighborsOf(cell, cellMap) ==
  LET inMap(coord) == coord \in cellMap
  IN SelectSeq(getHexNeighbors(cell.id[1], cell.id[2]), inMap)

\* lines 1355-1546; native is what the native Math.random would return
generateMap(args, originalRandom, shape, native) ==
  LET seedValue == hashSeed(args.seed)
      random == SeededRandom(seedValue)
      during == MathRandomDuring(originalRandom, random)
      made == generateContinents(args.width, args.height, args.numContinents,
                                 seedValue)
      placed == generateIslands(args.width, args.height, args.numIslands,
                                seedValue, made.continents, shape.rejected)
      cellsWithElevation ==
        sortByElevation(gridCells(args.width, args.height, args.hexSize,
                                  made.continents, placed.islands,
                                  shape.field))
      totalCells == Len(cellsWithElevation)
      landCellCount == landCellCountOf(totalCells, args.landTilePercentage)
      rands == mathRandomCalls(during, 2 * landCellCount, native)
      cellMap == {cellsWithElevation[i].cell.id : i \in 1..totalCells}
      assigned == [i \in 1..totalCells |->
                     assignTerrain(cellsWithElevation[i], i, landCellCount,
                                   rands, TILE_TYPES, RESOURCE_SCARCITY)]
      cells == [i \in 1..totalCells |->
                  [assigned[i] EXCEPT
                     !.neighbors = neighborsOf(assigned[i], cellMap)]]
  IN [mapData |-> [seed |-> args.seed, width |-> args.width,
                   height |-> args.height, cells |-> cells],
      elevation |-> [i \in 1..totalCells |-> cellsWithElevation[i].elevation],
      streams |-> [cells |-> random.rng, continents |-> made.rng,
                   islands |-> placed.rng],
      noise |-> [continents |-> [n \in DOMAIN made.continents |->
                                   made.continents[n].seed],
                 islands |-> [n \in DOMAIN placed.islands |->
                                placed.islands[n].seed]],
      drawn |-> made.drawn \o placed.drawn
                  \o (IF during.native THEN <<>> ELSE rands),
      restored |-> originalRandom]

\* the calls of generateMap: the arguments after seed, width and height are
\* hexSize, numContinents, numIslands and landTilePercentage (in percent)
GenerateArgs ==
  {[seed |-> <<"a", "b", "c">>, width |-> 200, height |-> 200, hexSize |-> 30,
    numContinents |-> 1, numIslands |-> 1, landTilePercentage |-> 30],
   [seed |-> <<"a", "b", "c">>, width |-> 60, height |-> 60, hexSize |-> 10,
    numContinents |-> 0, numIslands |-> 0, landTilePercentage |-> 50],
   [seed |-> <<"z", "z", "z", "z", "z", "z">>, width |-> 60, height |-> 60,
    hexSize |-> 10, numContinents |-> 2, numIslands |-> 0,
    landTilePercentage |-> 30],
   [seed |-> <<>>, width |-> 30, height |-> 20, hexSize |-> 10,
    numContinents |-> 0, numIslands |-> 2, landTilePercentage |-> 100],
   [seed |-> <<"a", "b", "c">>, width |-> 30, height |-> 20, hexSize |-> 10,
    numContinents |-> 1, numIslands |-> 0, landTilePercentage |-> 0],
   [seed |-> <<"z", "z", "z", "z", "z", "z">>, width |-> 200, height |-> 200,
    hexSize |-> 30, numContinents |-> 1, numIslands |-> 2,
    landTilePercentage |-> 50]}

\* a map of the largest hexSize the settings of the map accept
\* (MapSettings.tsx, lines 186-194: 10 to 100)
LargeHexArgs ==
  {[seed |-> <<"a", "b", "c">>, width |-> 400, height |-> 800, hexSize |-> 100,
    numContinents |-> 1, numIslands |-> 0, landTilePercentage |-> 30]}

\* what the native Math.random returns, as rng of rng / 233280
NativeRandom == {1000, 150000}

\* a call of generateMap with one of the arguments: synchronous, so one step
GenerateMapOf(arguments) ==
  /\ Len(runs) < MaxRuns
  /\ \E args \in arguments : \E native \in NativeRandom :
       LET run == generateMap(args, MathRandom, landscape, native)
       IN /\ runs' = Append(runs, [args |-> args, out |-> run])
          /\ MathRandom' = run.restored
  /\ UNCHANGED <<landscape, serverVars, loaderVars, settlementVars, tilingVars, generateVars, renderVars, canvasVars>>

GenerateMap == GenerateMapOf(GenerateArgs)

(***************************************************************************)
(* src/unnamed/part_006 (lib/gameConstants.ts)                             *)
(***************************************************************************)
MAP_WIDTH == 2400
MAP_HEIGHT == 1500

(***************************************************************************)
(* The tile pyramid: the tiles of TileLoader.getAllTilesForZoom are        *)
(* generated one by one; generateTile computes the bounds of each from the *)
(* width and height of the stored map.                                     *)
(***************************************************************************)
\* the map of the tile server and the loader above
StoredMapSize == [width |-> MapWidth, height |-> MapHeight]

\* the sizes of the maps stored: the one above, the default of the game, a
\* single tile at zoom 0, one pixel more than a tile, one pixel, and a map
\* several tiles wide at zoom 2
MapSizes ==
  {StoredMapSize, [width |-> MAP_WIDTH, height |-> MAP_HEIGHT],
   [width |-> 512, height |-> 512], [width |-> 1025, height |-> 513],
   [width |-> 1, height |-> 1], [width |-> 8192, height |-> 600]}

NoTiling == [zoomLevel \in 0..4 |-> <<>>]

\* generateTile, lines 225-231, for the next tile of a zoom level
GenerateTileBounds ==
  /\ \E zoomLevel \in 0..4 :
       LET tiles == TileLoader_getAllTilesForZoom(mapSize.width, mapSize.height,
                                                 zoomLevel)
           i == Len(tiling[zoomLevel]) + 1
       IN /\ i <= Len(tiles)
          /\ tiling' = [tiling EXCEPT ![zoomLevel] =
               Append(@, [tile |-> tiles[i],
                          bounds |-> calculateTileBounds(tiles[i].x, tiles[i].y,
                                       zoomLevel, mapSize.width, mapSize.height)])]
  /\ UNCHANGED <<mapSize, serverVars, loaderVars, generationVars, settlementVars,
                 generateVars, renderVars, canvasVars>>

(***************************************************************************)
(* Settlements: the settlements route stores a settlement at the site of   *)
(* a cell, then calls invalidateSettlementTiles.                           *)
(***************************************************************************)
NoSettlement == <<-1, -1>>

\* the characters of a number in a template literal
DigitChar(d) ==
  CASE d = 0 -> "0" [] d = 1 -> "1" [] d = 2 -> "2" [] d = 3 -> "3"
    [] d = 4 -> "4" [] d = 5 -> "5" [] d = 6 -> "6" [] d = 7 -> "7"
    [] d = 8 -> "8" [] d = 9 -> "9"

RECURSIVE NaturalToString(_)
NaturalToString(n) ==
  IF n < 10 THEN <<DigitChar(n)>>
  ELSE Append(NaturalToString(n \div 10), DigitChar(n % 10))

NumberToString(n) ==
  IF n < 0 THEN <<"-">> \o NaturalToString(-n) ELSE NaturalToString(n)

\* line 51: `${zoomLevel}-${tileCoord.x}-${tileCoord.y}-${viewMode}`; the view
\* mode, which holds no "-", is kept as one element
tileKeyString(zoomLevel, tileCoord, viewMode) ==
  NumberToString(zoomLevel) \o <<"-">> \o NumberToString(tileCoord.x) \o <<"-">>
    \o NumberToString(tileCoord.y) \o <<"-">> \o <<viewMode>>

\* key.split("-"): the pieces between the separators, empty ones included
RECURSIVE split(_, _)
split(str, separator) ==
  IF str = <<>> THEN <<<<>>>>
  ELSE LET rest == split(Tail(str), separator)
       IN IF Head(str) = separator THEN <<<<>>>> \o rest
          ELSE <<<<Head(str)>> \o Head(rest)>> \o Tail(rest)

\* the string a piece of the key is
RECURSIVE StringOf(_)
StringOf(piece) ==
  IF piece = <<>> THEN "" ELSE Head(piece) \o StringOf(Tail(piece))

\* a number as the insert stores it: NaN is serialized as null
StoredNumber(v) == IF isNaN(v) THEN NULL ELSE v.val

\* lines 58-69: the row made from a key of uniqueTiles
invalidationOfKey(mapId, key, reason, seq) ==
  LET pieces == split(key, "-")
      zoomLevel == pieces[1]
      tileX == pieces[2]
      tileY == pieces[3]
      viewMode == pieces[4]
  IN [map_id |-> mapId,
      tile_x |-> StoredNumber(parseInt(tileX)),
      tile_y |-> StoredNumber(parseInt(tileY)),
      zoom_level |-> StoredNumber(parseInt(zoomLevel)),
      view_mode |-> StringOf(viewMode),
      reason |-> reason,
      seq |-> seq]

\* lines 43-55: the keys collected for the coordinates
uniqueTilesOf(cellCoordinates) ==
  {tileKeyString(zoomLevel, worldToTile(coord.x, coord.y, zoomLevel), viewMode) :
     coord \in cellCoordinates, zoomLevel \in 0..4, viewMode \in MapView}

\* lines 38-74: the rows of the one batch insert; cellCoordinates is the set
\* of the coordinates in the array
invalidateCellsTiles(mapId, cellCoordinates, reason, seq) ==
  LET uniqueTiles == uniqueTilesOf(cellCoordinates)
  IN {invalidationOfKey(mapId, key, reason, seq) : key \in uniqueTiles}

\* src/unnamed/part_011, lines 61-70: the constraints of the table, on the
\* row made from a key: tile_x, tile_y and zoom_level are NOT NULL,
\* zoom_level is in 0..4 and view_mode is one of the three views
tile_cache_invalidation_accepts(key) ==
  LET pieces == split(key, "-")
  IN /\ Len(pieces) >= 4
     /\ ~isNaN(parseInt(pieces[2]))
     /\ ~isNaN(parseInt(pieces[3]))
     /\ ~isNaN(parseInt(pieces[1]))
     /\ parseInt(pieces[1]).val \in 0..4
     /\ StringOf(pieces[4]) \in MapView

\* line 72: the insert of the rows is one statement: when a row violates a
\* constraint the statement fails and no row is inserted; the error in the
\* result is not read
insertInvalidations(table, cellCoordinates, rows) ==
  IF \A key \in uniqueTilesOf(cellCoordinates) : tile_cache_invalidation_accepts(key)
  THEN table \cup rows
  ELSE table

\* line 122: const radius = 500
settlementRadius == 500
\* line 126: const step = 100
settlementStep == 100

\* a sampling that keeps every point of the grid, whatever its distance
settlementCoordinates_NoDistanceTest(cellX, cellY) ==
  {[x |-> cellX - settlementRadius + i * settlementStep,
    y |-> cellY - settlementRadius + j * settlementStep] :
     i \in 0..((2 * settlementRadius) \div settlementStep),
     j \in 0..((2 * settlementRadius) \div settlementStep)}

\* lines 127-134: the points of the grid around the settlement that are kept;
\* dist <= radius is compared in squares, the coordinates being whole numbers
settlementCoordinates(cellX, cellY) ==
  LET steps == 0..((2 * settlementRadius) \div settlementStep)
      points == {[x |-> cellX - settlementRadius + i * settlementStep,
                  y |-> cellY - settlementRadius + j * settlementStep] :
                   i \in steps, j \in steps}
  IN {p \in points :
        (p.x - cellX) * (p.x - cellX) + (p.y - cellY) * (p.y - cellY)
          <= settlementRadius * settlementRadius}

\* lines 115-137
invalidateSettlementTiles(mapId, cellX, cellY, seq) ==
  invalidateCellsTiles(mapId, settlementCoordinates(cellX, cellY),
                       "settlement-change", seq)

\* the positions the settlements are created at: the centre of the map's
\* left part, the site of a cell near it, and two more; then a position less
\* than 500 pixels from the left edge, one as near to the top edge, and one
\* near the corner
SettlementSites ==
  {<<1000, 750>>, <<701, 675>>, <<1500, 750>>, <<1200, 900>>,
   <<200, 750>>, <<1200, 300>>, <<100, 100>>}

\* settlements/create/route.ts, lines 44-56: the settlement is inserted
CreateSettlement ==
  /\ settlement = NoSettlement
  /\ settlements < MaxSettlements
  /\ \E position \in SettlementSites : settlement' = position
  /\ settlements' = settlements + 1
  /\ UNCHANGED <<serverVars, loaderVars, generationVars, tilingVars, generateVars, renderVars, canvasVars>>

\* settlements/create/route.ts, lines 80-88: the tiles around it are invalidated
InvalidateSettlement ==
  /\ settlement # NoSettlement
  /\ tile_cache_invalidation' =
       insertInvalidations(tile_cache_invalidation,
                           settlementCoordinates(settlement[1], settlement[2]),
                           invalidateSettlementTiles("m1", settlement[1], settlement[2], invSeq + 1))
  /\ invSeq' = invSeq + 1
  /\ settlement' = NoSettlement
  /\ UNCHANGED <<maps, territories, map_tiles, req, change, pre, settlements,
                 loaderVars, generationVars, tilingVars, generateVars, renderVars, canvasVars>>

(***************************************************************************)
(* src/src/lib/tileGeneration.ts: generateTile selects the cells of a tile *)
(* of a generated map.  A site is (hexSize * SQRT3 * k / 2,                *)
(* hexSize * 3 * row / 2); the padding is a tenth of the tile size, so the *)
(* comparisons are made on ten times the lengths, those with SQRT3 by      *)
(* their squares.                                                          *)
(***************************************************************************)
NoRender == [run |-> 0, zoomLevel |-> 0, tile |-> NULL, bounds |-> NULL, cells |-> <<>>]

\* lines 56-79
getCellsForTile(cells, bounds, zoomLevel) ==
  LET tileSize == getTileSize(zoomLevel)
      \* ten times expandedBounds: padding = tileSize * 0.1
      minX10 == 10 * bounds.minX - tileSize
      maxX10 == 10 * bounds.maxX + tileSize
      minY10 == 10 * bounds.minY - tileSize
      maxY10 == 10 * bounds.maxY + tileSize
      selected(cell) ==
        LET \* ten times the site is (a * SQRT3, y10)
            a == 5 * cell.polygon.hexSize * cell.site.k
            y10 == 15 * cell.polygon.hexSize * cell.site.row
        IN /\ minX10 <= 0 \/ 3 * a * a >= minX10 * minX10
           /\ 3 * a * a <= maxX10 * maxX10
           /\ y10 >= minY10
           /\ y10 <= maxY10
  IN SelectSeq(cells, selected)

\* lines 216-243: generateTile for a tile of the pyramid of a generated map,
\* up to the cells handed to renderCellsToTile
GenerateTileCells ==
  /\ \E n \in DOMAIN runs : \E zoomLevel \in 0..4 :
       LET mapData == runs[n].out.mapData
           tiles == TileLoader_getAllTilesForZoom(mapData.width, mapData.height, zoomLevel)
       IN \E i \in DOMAIN tiles :
            LET bounds == calculateTileBounds(tiles[i].x, tiles[i].y, zoomLevel,
                                              mapData.width, mapData.height)
            IN rendered' = [run |-> n, zoomLevel |-> zoomLevel, tile |-> tiles[i],
                            bounds |-> bounds,
                            cells |-> getCellsForTile(mapData.cells, bounds, zoomLevel)]
  /\ UNCHANGED <<serverVars, loaderVars, generationVars, settlementVars, tilingVars,
                 generateVars, canvasVars>>

(***************************************************************************)
(* src/unnamed/part_004 (app/api/map/generate/route.ts): POST              *)
(* Every await is a step.  The supabase client reports a failed statement  *)
(* in the error field of its result and does not throw: the three deletes  *)
(* ignore their results, so a failed delete is followed by the next        *)
(* statement.                                                               *)
(***************************************************************************)
Gens == 1..MaxGens

IdleGen == [pc |-> "idle", id |-> NULL, status |-> 0,
            prior |-> [maps |-> {}, territories |-> 0, settlements |-> 0]]

\* line 1534: id: `map-${Date.now()}`, for requests in different milliseconds
mapIdOf(g) == <<"map", g>>

\* lines 15-43: the body is read and the map is generated; prior records the
\* tables as the request finds them
GenerateStart(g) ==
  /\ gen[g].pc = "idle"
  /\ gen' = [gen EXCEPT ![g] =
       [pc |-> "clearTerritories", id |-> mapIdOf(g), status |-> 0,
        prior |-> [maps |-> maps, territories |-> territories,
                   settlements |-> settlements]]]
  /\ UNCHANGED <<serverVars, loaderVars, generationVars, settlementVars,
                 tilingVars, lastGenerated, renderVars, canvasVars>>

\* line 47: the delete of every row of territories, or its failure
GenerateClearTerritories(g) ==
  /\ gen[g].pc = "clearTerritories"
  /\ \/ territories' = 0
     \/ UNCHANGED territories
  /\ gen' = [gen EXCEPT ![g].pc = "clearSettlements"]
  /\ UNCHANGED <<maps, map_tiles, tile_cache_invalidation, invSeq, req, change,
                 pre, loaderVars, generationVars, settlementVars, tilingVars,
                 lastGenerated, renderVars, canvasVars>>

\* line 48: the delete of every row of settlements, or its failure
GenerateClearSettlements(g) ==
  /\ gen[g].pc = "clearSettlements"
  /\ \/ settlements' = 0
     \/ UNCHANGED settlements
  /\ gen' = [gen EXCEPT ![g].pc = "clearMaps"]
  /\ UNCHANGED <<serverVars, loaderVars, generationVars, settlement,
                 tilingVars, lastGenerated, renderVars, canvasVars>>

\* line 49: the delete of every row of maps, which cascades to map_tiles and
\* tile_cache_invalidation (schema: ON DELETE CASCADE), or its failure
GenerateClearMaps(g) ==
  /\ gen[g].pc = "clearMaps"
  /\ \/ /\ maps' = {}
        /\ map_tiles' = {}
        /\ tile_cache_invalidation' = {}
     \/ UNCHANGED <<maps, map_tiles, tile_cache_invalidation>>
  /\ gen' = [gen EXCEPT ![g].pc = "insert"]
  /\ UNCHANGED <<territories, invSeq, req, change, pre, loaderVars,
                 generationVars, settlementVars, tilingVars, lastGenerated, renderVars, canvasVars>>

\* lines 57-98: the insert of the map; on an error the answer is 500 "Failed
\* to save map to database".  The fetch of line 87 is a request of its own to
\* the tile precompute.
GenerateInsert(g) ==
  /\ gen[g].pc = "insert"
  /\ \/ /\ maps' = maps \cup {gen[g].id}
        /\ lastGenerated' = gen[g].id
        /\ gen' = [gen EXCEPT ![g].pc = "done", ![g].status = 200]
     \/ /\ UNCHANGED <<maps, lastGenerated>>
        /\ gen' = [gen EXCEPT ![g].pc = "done", ![g].status = 500]
  /\ UNCHANGED <<territories, map_tiles, tile_cache_invalidation, invSeq, req,
                 change, pre, loaderVars, generationVars, settlementVars,
                 tilingVars, renderVars, canvasVars>>

(***************************************************************************)
(* The tile server: requests, territory changes and the precompute         *)
(* interleave at their awaits.                                             *)
(***************************************************************************)
\* the state after construction, for a landscape
InitWith(l, size) ==
  /\ maps = {"m1"}
  /\ territories = 0
  /\ map_tiles = {}
  /\ tile_cache_invalidation = {}
  /\ invSeq = 0
  /\ req = [r \in Reqs |-> IdleReq]
  /\ change = NoChange
  /\ pre = IdlePre
  /\ requestQueue = <<>>
  /\ loadedTiles = {}
  /\ loadingTiles = {}
  /\ images = EmptyBag
  /\ timers = {}
  /\ viewportDebounceTimeout = 0
  /\ requestIntervalDue = intervalMs
  /\ preload = [isPreloading |-> FALSE, preloadZoomLevel |-> 0,
                preloadLoaded |-> 0, preloadTotal |-> 0]
  /\ poll = NoPoll
  /\ calls = 0
  /\ lastCall = NoCall
  /\ fired = 0
  /\ sinceDequeue = SinceCap
  /\ MathRandom = NativeMathRandom
  /\ runs = <<>>
  /\ landscape = l
  /\ settlement = NoSettlement
  /\ settlements = 0
  /\ mapSize = size
  /\ tiling = NoTiling
  /\ gen = [g \in Gens |-> IdleGen]
  /\ lastGenerated = NULL
  /\ rendered = NoRender
  /\ mapView = NULL

Init == InitWith([rejected |-> 0, field |-> "plateau"], StoredMapSize)

Next ==
  \/ ChangeTerritory
  \/ InvalidateTerritory
  \/ \E r \in Reqs : GetStart(r, RawRequests)
  \/ \E r \in Reqs : GetCheckInvalidated(r)
  \/ \E r \in Reqs : GetCacheLookup(r)
  \/ \E r \in Reqs : GetLoadMap(r)
  \/ \E r \in Reqs : GetLoadSnapshot(r)
  \/ \E r \in Reqs : GetGenerate(r)
  \/ \E r \in Reqs : GetSaveTile(r)
  \/ \E r \in Reqs : GetClearInvalidation(r)
  \/ PrecomputeLoad
  \/ PrecomputeUpsert

Spec == Init /\ [][Next]_vars

(***************************************************************************)
(* The cache protocol alone: requests and territory changes.               *)
(***************************************************************************)
NextCache ==
  \/ ChangeTerritory
  \/ InvalidateTerritory
  \/ \E r \in Reqs : GetStart(r, RawRequests)
  \/ \E r \in Reqs : GetCheckInvalidated(r)
  \/ \E r \in Reqs : GetCacheLookup(r)
  \/ \E r \in Reqs : GetLoadMap(r)
  \/ \E r \in Reqs : GetLoadSnapshot(r)
  \/ \E r \in Reqs : GetGenerate(r)
  \/ \E r \in Reqs : GetSaveTile(r)
  \/ \E r \in Reqs : GetClearInvalidation(r)

SpecCache == Init /\ [][NextCache]_vars

(***************************************************************************)
(* The validation of the tile route: requests with any parameters, no      *)
(* territory change.                                                       *)
(***************************************************************************)
NextValidate ==
  \/ \E r \in Reqs : GetStart(r, WideRequests)
  \/ \E r \in Reqs : GetCheckInvalidated(r)
  \/ \E r \in Reqs : GetCacheLookup(r)
  \/ \E r \in Reqs : GetLoadMap(r)
  \/ \E r \in Reqs : GetLoadSnapshot(r)
  \/ \E r \in Reqs : GetGenerate(r)
  \/ \E r \in Reqs : GetSaveTile(r)

SpecValidate == Init /\ [][NextValidate]_vars

(***************************************************************************)
(* The tile loader of one map canvas: calls, timers and image callbacks.   *)
(***************************************************************************)
NextLoader ==
  \/ \E call \in ViewportCalls :
       updateViewport(call.viewport, call.scale, call.viewMode, call.progressive)
  \/ DebounceFire
  \/ RequestTick
  \/ ImageSettles
  \/ clearCache
  \/ preloadAllTiles("terrain")
  \/ PreloadPoll
  \/ Advance

SpecLoader == Init /\ [][NextLoader]_vars

\* the event loop runs every callback that is due: the timers of
\* setTimeout and setInterval fire, time passes, and every image that was
\* started gets its onload or onerror
LoaderFairness ==
  /\ WF_vars(DebounceFire)
  /\ WF_vars(RequestTick)
  /\ WF_vars(ImageSettles)
  /\ WF_vars(PreloadPoll)
  /\ WF_vars(Advance)

SpecLoaderFair == SpecLoader /\ LoaderFairness

\* MapCanvas.tsx, lines 1147 and 1328-1334: the preload is asked for when the
\* loader is set up and again whenever the view mode changes
PreloadViews == {"terrain", "political"}

NextPreload ==
  \/ \E viewMode \in PreloadViews : preloadAllTiles(viewMode)
  \/ RequestTick
  \/ ImageSettles
  \/ PreloadPoll
  \/ Advance

SpecPreload == Init /\ [][NextPreload]_vars /\ LoaderFairness

(***************************************************************************)
(* Map generation: calls of generateMap, in any landscape.                 *)
(***************************************************************************)
InitMap == \E l \in Landscapes : InitWith(l, StoredMapSize)

NextMap == GenerateMap

SpecMap == InitMap /\ [][NextMap]_vars

\* the tiles of the generated maps are rendered
NextRender == GenerateMapOf(GenerateArgs \cup LargeHexArgs) \/ GenerateTileCells

SpecRender == Init /\ [][NextRender]_vars

\* settlements on the default map of the game
InitSettlement ==
  InitWith([rejected |-> 0, field |-> "plateau"],
           [width |-> MAP_WIDTH, height |-> MAP_HEIGHT])

NextSettlement == CreateSettlement \/ InvalidateSettlement

SpecSettlement == InitSettlement /\ [][NextSettlement]_vars

\* the map generation: territories change and a settlement is created on the
\* stored map, then generation requests arrive
NoGenerateStarted == \A g \in Gens : gen[g].pc = "idle"

NextGenerate ==
  \/ NoGenerateStarted /\ ChangeTerritory
  \/ NoGenerateStarted /\ InvalidateTerritory
  \/ NoGenerateStarted /\ settlements = 0 /\ CreateSettlement
  \/ NoGenerateStarted /\ InvalidateSettlement
  \/ \E g \in Gens : GenerateStart(g)
  \/ \E g \in Gens : GenerateClearTerritories(g)
  \/ \E g \in Gens : GenerateClearSettlements(g)
  \/ \E g \in Gens : GenerateClearMaps(g)
  \/ \E g \in Gens : GenerateInsert(g)

SpecGenerate == Init /\ [][NextGenerate]_vars

\* the tile pyramid of a stored map
InitTiling == \E size \in MapSizes : InitWith([rejected |-> 0, field |-> "plateau"], size)

NextTiling == GenerateTileBounds

SpecTiling == InitTiling /\ [][NextTiling]_vars

\* the tile server with the precompute, on the map of the loader above or on
\* the default map of the game
InitPrecompute ==
  \E size \in {StoredMapSize, [width |-> MAP_WIDTH, height |-> MAP_HEIGHT]} :
    InitWith([rejected |-> 0, field |-> "plateau"], size)

SpecPrecompute == InitPrecompute /\ [][Next]_vars

(***************************************************************************)
(* Claims about the tile cache                                             *)
(***************************************************************************)
\* no handler is between two of its steps
Quiescent ==
  /\ change = NoChange
  /\ pre.pc \in {"idle", "done"}
  /\ \A r \in Reqs : req[r].pc = "idle" \/ Over(req[r])

\* the tile (tileX, tileY) of a zoom level contains the world point
TileContains(tileX, tileY, zoomLevel, worldX, worldY) ==
  /\ tileX * worldTileSize(zoomLevel) <= worldX
  /\ worldX < (tileX + 1) * worldTileSize(zoomLevel)
  /\ tileY * worldTileSize(zoomLevel) <= worldY
  /\ worldY < (tileY + 1) * worldTileSize(zoomLevel)

\* the tile coordinates of the map at a zoom level
TilesX(zoomLevel) == 0..(CeilDiv(MapWidth, worldTileSize(zoomLevel)) - 1)
TilesY(zoomLevel) == 0..(CeilDiv(MapHeight, worldTileSize(zoomLevel)) - 1)

\* the rows of map_tiles whose tile contains every changed cell: every
\* territory change is followed by the invalidation of their key
RowsOfChangedCells ==
  {row \in map_tiles :
     \A site \in CellSites :
       TileContains(row.id.tile_x, row.id.tile_y, row.id.zoom_level,
                    site[1], site[2])}

\* C1: once every change was followed by its invalidation and all requests
\* and the precompute have ended, a cached tile of the changed cells either
\* still has an invalidation record or was rendered from the territories as
\* they are after the last change.
C1_EventualCorrectness ==
  Quiescent =>
    \A row \in RowsOfChangedCells :
      \/ isTileInvalidated(row.id.map_id, row.id.tile_x, row.id.tile_y,
                           row.id.zoom_level, row.id.view_mode)
      \/ row.tile_data.snapshot = territories

\* C2: a get that found its key invalidated and answers 200 answers with
\* rendered bytes, never with the cached row; and the clear it starts deletes
\* the invalidation rows of exactly its key and leaves every other row.
C2_FreshBytes ==
  \A r \in Reqs :
    (req[r].pc = "done" /\ req[r].invalidated /\ req[r].status = 200)
      => req[r].source = "render"

C2_ClearsExactlyTheKey ==
  \A r \in Reqs :
    (req[r].clear = "pending" /\ req'[r].clear = "ok") =>
      tile_cache_invalidation' =
        {row \in tile_cache_invalidation :
           getTileKey(row.map_id, row.zoom_level, row.tile_x, row.tile_y,
                      row.view_mode) # KeyOf(req[r])}

C3_Invalidates15Keys ==
  (change # NoChange /\ change' = NoChange) =>
    /\ \A zoomLevel \in 0..4 : \A viewMode \in MapView :
         \E tileX \in TilesX(zoomLevel) : \E tileY \in TilesY(zoomLevel) :
           /\ TileContains(tileX, tileY, zoomLevel, change[1], change[2])
           /\ isTileInvalidated("m1", tileX, tileY, zoomLevel, viewMode)'
    /\ Cardinality({getTileKey(row.map_id, row.zoom_level, row.tile_x,
                               row.tile_y, row.view_mode) :
                      row \in tile_cache_invalidation' \ tile_cache_invalidation})
         = 15

C3_InvalidateAllZoomsAndViews == [][C3_Invalidates15Keys]_vars

\* the cell at (600, 300) was invalidated: its 15 keys have a record
C3_Witness ==
  /\ invSeq > 0
  /\ \A zoomLevel \in 0..4 : \A viewMode \in MapView :
       isTileInvalidated("m1", worldToTile(600, 300, zoomLevel).x,
                         worldToTile(600, 300, zoomLevel).y, zoomLevel, viewMode)
  /\ isTileInvalidated("m1", 1, 0, 0, "terrain")

\* C4: when a get regenerated an invalidated key and its upsert failed, the
\* next get of that key renders again: it does not answer with cached bytes
\* older than the ones whose write failed.
C4_WriteFaultRetried ==
  \A r \in Reqs : \A q \in Reqs :
    ( /\ r = q + 1
      /\ Over(req[q]) /\ req[q].invalidated /\ req[q].status = 200
      /\ req[q].save = "failed"
      /\ req[r].after /\ req[r].pc = "done" /\ req[r].status = 200
      /\ KeyOf(req[r]) = KeyOf(req[q]) )
    => \/ req[r].source = "render"
       \/ req[r].bytes.snapshot >= req[q].bytes.snapshot

\* the characters of a decimal integer in 0..4
IsZoomLiteral(str) == Len(str) = 1 /\ str[1] \in {"0", "1", "2", "3", "4"}

\* C5: a request whose zoom is not an integer in 0..4, or whose view is given
\* and is not one of the three literals, is answered 400 at once: it never
\* reaches the invalidation check, the cache, the map or the render.
C5_BadZoomOrViewRejected ==
  \A r \in Reqs :
    ( /\ req[r].pc # "idle"
      /\ \/ ~IsZoomLiteral(req[r].raw.zoom)
         \/ req[r].raw.view \notin (MapView \cup {NULL}) )
    => (req[r].pc = "done" /\ req[r].status = 400)

\* the tile coordinate lies in the tile grid of the map at the zoom level
InTileGrid(zoomLevel, tileX, tileY) ==
  /\ tileX \in TilesX(zoomLevel)
  /\ tileY \in TilesY(zoomLevel)

\* C6: after any sequence of tile requests every cached tile lies in the
\* grid of its zoom level: 0 <= tileX < ceil(width / worldTileSize(zoom)) and
\* 0 <= tileY < ceil(height / worldTileSize(zoom)); a request outside of it
\* is rejected without a write.
C6_CachedTilesInGrid ==
  \A row \in map_tiles :
    InTileGrid(row.id.zoom_level, row.id.tile_x, row.id.tile_y)

(***************************************************************************)
(* Claims about the tile loader                                            *)
(***************************************************************************)
\* C7: as long as only updateViewport enqueues (no preload was started), the
\* request queue never holds the same tile key (zoom, x, y, view) twice.
C7_QueueHoldsEachKeyOnce ==
  preload.preloadTotal = 0 =>
    \A i \in DOMAIN requestQueue : \A j \in DOMAIN requestQueue :
      i # j => RequestKey(requestQueue[i]) # RequestKey(requestQueue[j])

\* 1000 / ratePerSecond
MinSpacing == 1000 \div MAX_REQUESTS_PER_SECOND

\* C8: a step that shortens the request queue either is clearCache or takes
\* exactly the head of the queue, and then the previous dequeue is at least
\* 1000 / MAX_REQUESTS_PER_SECOND ms old.
C8_OneDequeuePerTick ==
  Len(requestQueue') < Len(requestQueue) =>
    \/ /\ requestQueue' = <<>>
       /\ loadedTiles' = {}
       /\ loadingTiles' = {}
    \/ /\ requestQueue' = Tail(requestQueue)
       /\ sinceDequeue >= MinSpacing

C8_SchedulerRateBound == [][C8_OneDequeuePerTick]_vars

\* a second request was taken from a queue that still holds more
C8_Witness ==
  /\ sinceDequeue = 0
  /\ Cardinality(loadingTiles \cup loadedTiles) >= 2
  /\ requestQueue # <<>>

\* C9: the only pending debounce timer is the one of the last updateViewport
\* call; a call itself enqueues nothing; and when the timer fires the queue
\* receives the requests derived from the last call's viewport, scale and view.
C9_OnlyLastCallPending ==
  \A t \in timers : t.id = viewportDebounceTimeout /\ t.call = lastCall

C9_CallEnqueuesNothing ==
  lastCall' # lastCall \/ viewportDebounceTimeout' # viewportDebounceTimeout
    => requestQueue' = requestQueue

C9_FireEnqueuesLastCall ==
  fired' # fired =>
    /\ requestQueue' = ViewportRequests(requestQueue, lastCall)
    /\ timers' = {}

C9_Debounced ==
  /\ []C9_OnlyLastCallPending
  /\ [][C9_CallEnqueuesNothing /\ C9_FireEnqueuesLastCall]_vars

\* two calls were made, one callback ran and the queue holds the requests of
\* the second call
C9_Witness ==
  /\ viewportDebounceTimeout = 2
  /\ fired = 1
  /\ timers = {}
  /\ loadedTiles = {} /\ loadingTiles = {}
  /\ requestQueue # <<>>
  /\ requestQueue = ViewportRequests(<<>>, lastCall)

\* every tile of the zoom level is in loadedTiles under the view
AllLoaded(zoomLevel, viewMode) ==
  \A i \in DOMAIN getAllTilesForZoom(zoomLevel) :
    TileLoader_getTileKey(getAllTilesForZoom(zoomLevel)[i], viewMode)
      \in loadedTiles

\* C10: the preload moves from zoom level z only to z + 1 (or ends after 4)
\* and only when every tile of z is in loadedTiles; and outside the debounce
\* callback a request of a zoom level z + 1 is enqueued only when every tile
\* of z is in loadedTiles.
C10_AdvanceWhenLoaded ==
  /\ (preload.isPreloading /\ preload'.preloadZoomLevel # preload.preloadZoomLevel)
       => /\ preload'.preloadZoomLevel = preload.preloadZoomLevel + 1
          /\ AllLoaded(preload.preloadZoomLevel, poll.viewMode)
  /\ (preload.isPreloading /\ ~preload'.isPreloading)
       => /\ preload.preloadZoomLevel = 4
          /\ AllLoaded(4, poll.viewMode)
  /\ (fired' = fired /\ Len(requestQueue') > Len(requestQueue))
       => \A i \in (Len(requestQueue) + 1)..Len(requestQueue') :
            requestQueue'[i].zoom > 0
              => AllLoaded(requestQueue'[i].zoom - 1, requestQueue'[i].view)

C10_PreloadSequential == [][C10_AdvanceWhenLoaded]_vars

\* the preload has reached zoom level 2 and the request of its tile is queued
C10_Witness ==
  /\ preload.isPreloading
  /\ preload.preloadZoomLevel = 2
  /\ AllLoaded(0, poll.viewMode) /\ AllLoaded(1, poll.viewMode)
  /\ \E i \in DOMAIN requestQueue : requestQueue[i].zoom = 2

(***************************************************************************)
(* Claims about the map generation                                         *)
(***************************************************************************)
\* the absolute value
Abs(a) == IF a >= 0 THEN a ELSE -a

\* the point (px, py), px >= 0, lies in the hexagon (its border included):
\* with dx and dy the distances to the centre along the axes,
\* dx <= hexSize * SQRT3 / 2 and dy <= hexSize - dx / SQRT3
HexContains(polygon, px, py) ==
  LET size == polygon.hexSize
      k == polygon.k
      \* twice hexSize - dy
      t2 == 2 * size - Abs(2 * py - 3 * size * polygon.row)
      A == size * k - t2
      B == size * k + t2
  IN /\ k <= 1 \/ 3 * size * size * (k - 1) * (k - 1) <= 4 * px * px
     /\ 4 * px * px <= 3 * size * size * (k + 1) * (k + 1)
     /\ t2 >= 0
     /\ A <= 0 \/ 3 * A * A <= 4 * px * px
     /\ 4 * px * px <= 3 * B * B

\* points of the map: a lattice of step hexSize, and the far edges
CoveragePoints(width, height, hexSize) ==
  ({i * hexSize : i \in 0..(width \div hexSize)} \cup {width})
    \X ({j * hexSize : j \in 0..(height \div hexSize)} \cup {height})

\* C11: in every generated map every point of [0, width] x [0, height] lies
\* in the polygon of a cell; in particular the points of the bottom and of
\* the right edge.
C11_HexGridCoversMap ==
  \A n \in DOMAIN runs :
    \A p \in CoveragePoints(runs[n].args.width, runs[n].args.height,
                             runs[n].args.hexSize) :
      \E i \in DOMAIN runs[n].out.mapData.cells :
        HexContains(runs[n].out.mapData.cells[i].polygon, p[1], p[2])

\* the cells of the n-th generated map
CellsOf(n) == runs[n].out.mapData.cells

\* the elements of a sequence
Range(seq) == {seq[i] : i \in DOMAIN seq}

\* C12: in every generated map, every id in the neighbors of a cell is the
\* id of a cell of the map, and that cell has the first one in its neighbors.
C12_AdjacencySymmetric ==
  \A n \in DOMAIN runs :
    \A i \in DOMAIN CellsOf(n) :
      \A id \in Range(CellsOf(n)[i].neighbors) :
        \E j \in DOMAIN CellsOf(n) :
          /\ CellsOf(n)[j].id = id
          /\ CellsOf(n)[i].id \in Range(CellsOf(n)[j].neighbors)

\* a map has a cell at the border with neighbours, next to a hexagon of the
\* grid that was discarded for lying outside of the map
C12_Witness ==
  \E n \in DOMAIN runs :
    \E i \in DOMAIN CellsOf(n) :
      /\ CellsOf(n)[i].neighbors # <<>>
      /\ \E coord \in Range(getHexNeighbors(CellsOf(n)[i].id[1],
                                              CellsOf(n)[i].id[2])) :
           /\ coord[1] \in 0..(gridRows(runs[n].args.height,
                                         runs[n].args.hexSize) - 1)
           /\ coord[2] \in 0..(gridCols(runs[n].args.width,
                                         runs[n].args.hexSize) - 1)
           /\ outsideMap(hexToPixel(coord[1], coord[2], runs[n].args.hexSize),
                         runs[n].args.width, runs[n].args.height,
                         runs[n].args.hexSize)
           /\ \A j \in DOMAIN CellsOf(n) : CellsOf(n)[j].id # coord

\* C13: every number a seeded generator returns is at least 0 and less than
\* 1, for every seed: every value of rng drawn while a map is generated (by
\* random, and by seededRandom of generateContinents and generateIslands) is
\* in 0..233279.
C13_OutputsInUnitInterval ==
  \A n \in DOMAIN runs :
    \A d \in Range(runs[n].out.drawn) : 0 <= d /\ d < LcgModulus

\* the seeds of a run, one per use: the three generators, then the noise
\* seed of every continent and of every island
SeedsOf(n) ==
  <<runs[n].out.streams.cells, runs[n].out.streams.continents,
    runs[n].out.streams.islands>>
    \o runs[n].out.noise.continents \o runs[n].out.noise.islands

\* C14: for every base seed the seed of the generator of the cell attributes,
\* of the continent placement, of the island placement, and the noise seeds
\* of the continents and of the islands are pairwise distinct.
C14_SeedsPairwiseDistinct ==
  \A n \in DOMAIN runs :
    \A i \in DOMAIN SeedsOf(n) : \A j \in DOMAIN SeedsOf(n) :
      i # j => SeedsOf(n)[i] # SeedsOf(n)[j]

\* C15: two calls of generateMap with the same seed and parameters return
\* the same cells: as many, with the same ids in the same order, the same
\* polygons, neighbors, terrain, tileType and resource; and a call leaves
\* Math.random as it found it.
C15_Deterministic ==
  /\ MathRandom = NativeMathRandom
  /\ \A m \in DOMAIN runs : \A n \in DOMAIN runs :
       runs[m].args = runs[n].args
         => /\ Len(CellsOf(m)) = Len(CellsOf(n))
            /\ \A i \in DOMAIN CellsOf(m) :
                 /\ CellsOf(m)[i].id = CellsOf(n)[i].id
                 /\ CellsOf(m)[i].polygon = CellsOf(n)[i].polygon
                 /\ CellsOf(m)[i].neighbors = CellsOf(n)[i].neighbors
                 /\ CellsOf(m)[i].terrain = CellsOf(n)[i].terrain
                 /\ CellsOf(m)[i].tileType = CellsOf(n)[i].tileType
                 /\ CellsOf(m)[i].resource = CellsOf(n)[i].resource

\* a map with land and water was generated, then a map of another seed, then
\* the first one again
C15_Witness ==
  /\ Len(runs) = 3
  /\ runs[1].args = runs[3].args
  /\ runs[2].args.seed # runs[1].args.seed
  /\ \E i \in DOMAIN CellsOf(3) : CellsOf(3)[i].terrain = "land"
  /\ \E i \in DOMAIN CellsOf(3) : CellsOf(3)[i].terrain = "water"

\* the number of Land cells of the n-th map
LandCells(n) ==
  Cardinality({i \in DOMAIN CellsOf(n) : CellsOf(n)[i].terrain = "land"})

\* C16: in every generated map the number of Land cells differs from
\* totalCells * landTilePercentage by at most one cell, whatever the
\* elevations are (landTilePercentage is in percent, so both sides are
\* multiplied by 100).
C16_LandFraction ==
  \A n \in DOMAIN runs :
    Abs(100 * LandCells(n) - Len(CellsOf(n)) * runs[n].args.landTilePercentage)
      <= 100

\* a map whose cells all have the same elevation, with some land, where
\* totalCells * landTilePercentage is not a whole number
C16_Witness ==
  \E n \in DOMAIN runs :
    /\ \A i \in DOMAIN runs[n].out.elevation :
         runs[n].out.elevation[i] = runs[n].out.elevation[1]
    /\ LandCells(n) > 0
    /\ 100 * LandCells(n) < Len(CellsOf(n)) * runs[n].args.landTilePercentage

\* the values of ResourceType
ResourceTypes ==
  {"wheat", "water", "wood", "cotton", "bronze", "iron", "gold", "coal",
   "wildlife"}

\* C17: in every generated map a cell has no resource or one resource, and
\* a Water cell has no tileType and no resource.
C17_ResourceExclusive ==
  \A n \in DOMAIN runs :
    \A i \in DOMAIN CellsOf(n) :
      /\ CellsOf(n)[i].resource \in ResourceTypes \cup {NULL}
      /\ CellsOf(n)[i].terrain = "water"
           => CellsOf(n)[i].tileType = NULL /\ CellsOf(n)[i].resource = NULL

\* a map with a Water cell, a Land cell with a resource and a Land cell
\* without one
C17_Witness ==
  \E n \in DOMAIN runs :
    /\ \E i \in DOMAIN CellsOf(n) : CellsOf(n)[i].terrain = "water"
    /\ \E i \in DOMAIN CellsOf(n) :
         /\ CellsOf(n)[i].terrain = "land"
         /\ CellsOf(n)[i].tileType # NULL
         /\ CellsOf(n)[i].resource \in ResourceTypes
    /\ \E i \in DOMAIN CellsOf(n) :
         CellsOf(n)[i].terrain = "land" /\ CellsOf(n)[i].resource = NULL
(***************************************************************************)
(* Claims about the tile pyramid                                           *)
(***************************************************************************)
\* the bounds rectangle contains the unit square whose lower corner is (i, j)
BoundsContainSquare(bounds, i, j) ==
  /\ bounds.minX <= i /\ i + 1 <= bounds.maxX
  /\ bounds.minY <= j /\ j + 1 <= bounds.maxY

\* the coordinates next to an edge of some bounds, or to an edge of the map:
\* bounds have whole corners, so a gap in [0, size] holds a unit interval
\* that starts at one of these
EdgeCoordinates(edges, size) ==
  {i \in {0, size - 1} \cup edges \cup {e - 1 : e \in edges} :
     0 <= i /\ i + 1 <= size}

\* the bounds generated for a zoom level
BoundsOf(zoomLevel) ==
  {tiling[zoomLevel][i].bounds : i \in 1..Len(tiling[zoomLevel])}

\* all tiles of the full tile set of a zoom level have been generated
FullSetGenerated(zoomLevel) ==
  Len(tiling[zoomLevel]) =
    Len(TileLoader_getAllTilesForZoom(mapSize.width, mapSize.height, zoomLevel))

\* C18: the bounds returned for every tile of the full tile set of a zoom
\* level lie within the map (0 <= minX <= maxX <= width and 0 <= minY <= maxY
\* <= height), also where the world tile size overshoots the map; and once
\* the full set of a level is generated, its bounds cover [0, width] x
\* [0, height] with no gap.
C18_TileCoverage ==
  \A zoomLevel \in 0..4 :
    /\ \A b \in BoundsOf(zoomLevel) :
         /\ 0 <= b.minX /\ b.minX <= b.maxX /\ b.maxX <= mapSize.width
         /\ 0 <= b.minY /\ b.minY <= b.maxY /\ b.maxY <= mapSize.height
    /\ FullSetGenerated(zoomLevel) =>
         LET bs == BoundsOf(zoomLevel)
             xs == EdgeCoordinates({b.minX : b \in bs} \cup {b.maxX : b \in bs},
                                   mapSize.width)
             ys == EdgeCoordinates({b.minY : b \in bs} \cup {b.maxY : b \in bs},
                                   mapSize.height)
         IN \A i \in xs : \A j \in ys :
              \E b \in bs : BoundsContainSquare(b, i, j)

\* the full set of zoom level 0 of the default map is generated: 5 x 3
\* tiles, the last column and the last row overshoot the map and are clamped
C18_Witness ==
  /\ mapSize = [width |-> MAP_WIDTH, height |-> MAP_HEIGHT]
  /\ FullSetGenerated(0)
  /\ Len(tiling[0]) = 15
  /\ \E i \in 1..Len(tiling[0]) :
       /\ tiling[0][i].tile = [x |-> 4, y |-> 2, zoom |-> 0]
       /\ (tiling[0][i].tile.x + 1) * worldTileSize(0) > mapSize.width
       /\ tiling[0][i].bounds =
            [minX |-> 2048, maxX |-> 2400, minY |-> 1024, maxY |-> 1500]

(***************************************************************************)
(* Claims about the settlements                                            *)
(***************************************************************************)
\* the invalidation of the settlement at a position runs in this step
SettlementInvalidated(position) ==
  settlement = position /\ settlement' = NoSettlement

\* the rows the step inserts
NewInvalidations == tile_cache_invalidation' \ tile_cache_invalidation

\* the square of the distance from a point to the nearest point of a rectangle
DistanceSquared(bounds, x, y) ==
  LET dx == Max(Max(bounds.minX - x, x - bounds.maxX), 0)
      dy == Max(Max(bounds.minY - y, y - bounds.maxY), 0)
  IN dx * dx + dy * dy

\* the tiles of the map at a zoom level
MapTiles(zoomLevel) ==
  Range(TileLoader_getAllTilesForZoom(mapSize.width, mapSize.height, zoomLevel))

\* the disc around the position reaches into the bounds of the tile
DiscMeetsTile(position, tile) ==
  DistanceSquared(calculateTileBounds(tile.x, tile.y, tile.zoom,
                                      mapSize.width, mapSize.height),
                  position[1], position[2])
    < settlementRadius * settlementRadius

\* C19: when the invalidation of a settlement has run, then for every zoom
\* level 0..4 every tile whose bounds meet the disc of 500 pixels around the
\* settlement has an invalidation record for each of the three views, also
\* a tile the disc reaches only near a corner, between the sampled points.
C19_DiscTilesInvalidated ==
  \A position \in SettlementSites :
    SettlementInvalidated(position) =>
      \A zoomLevel \in 0..4 : \A tile \in MapTiles(zoomLevel) :
        DiscMeetsTile(position, tile) =>
          \A viewMode \in MapView :
            isTileInvalidated("m1", tile.x, tile.y, zoomLevel, viewMode)'

C19_EveryTileOfTheDisc == [][C19_DiscTilesInvalidated]_vars

\* the centre of the scenario
ScenarioCenter == <<1000, 750>>

\* the points of the 100 pixel grid around the centre at a distance of at
\* most 500 pixels
GridPointsWithin ==
  {p \in {<<ScenarioCenter[1] + 100 * i, ScenarioCenter[2] + 100 * j>> :
            i \in -5..5, j \in -5..5} :
     (p[1] - ScenarioCenter[1]) * (p[1] - ScenarioCenter[1])
       + (p[2] - ScenarioCenter[2]) * (p[2] - ScenarioCenter[2]) <= 500 * 500}

\* the points with whole coordinates at a distance of 600 pixels
PointsAt600 ==
  {p \in {<<ScenarioCenter[1] + dx, ScenarioCenter[2] + dy>> :
            dx \in {-600, -480, -360, 0, 360, 480, 600},
            dy \in {-600, -480, -360, 0, 360, 480, 600}} :
     (p[1] - ScenarioCenter[1]) * (p[1] - ScenarioCenter[1])
       + (p[2] - ScenarioCenter[2]) * (p[2] - ScenarioCenter[2]) = 600 * 600}

\* a new row is the record of the tile of the point at a zoom level, for a view
RecordOfPoint(row, point, zoomLevel, viewMode) ==
  /\ InvalidationMatch(row, "m1", worldToTile(point[1], point[2], zoomLevel).x,
                       worldToTile(point[1], point[2], zoomLevel).y,
                       zoomLevel, viewMode)
  /\ row.reason = "settlement-change"

\* the tile of every grid point within 500 pixels gets a record at each of
\* the 5 zoom levels, for each of the 3 views
C20_PointsRecorded ==
  SettlementInvalidated(ScenarioCenter) =>
    \A p \in GridPointsWithin : \A zoomLevel \in 0..4 : \A viewMode \in MapView :
      \E row \in NewInvalidations : RecordOfPoint(row, p, zoomLevel, viewMode)

\* every record is the record of the tile of a grid point within 500 pixels
C20_OnlySampledPoints ==
  SettlementInvalidated(ScenarioCenter) =>
    \A row \in NewInvalidations :
      \E p \in GridPointsWithin : \E zoomLevel \in 0..4 : \E viewMode \in MapView :
        RecordOfPoint(row, p, zoomLevel, viewMode)

\* no record has the key derived from a point at a distance of 600 pixels
C20_NoRecordAt600 ==
  SettlementInvalidated(ScenarioCenter) =>
    \A q \in PointsAt600 : \A zoomLevel \in 0..4 : \A viewMode \in MapView :
      \A row \in NewInvalidations : ~RecordOfPoint(row, q, zoomLevel, viewMode)

\* C20 as stated: the invalidation of the settlement at (1000, 750) with the
\* radius of 500 pixels produces records for the tile of every sampled point
\* of the 100 pixel grid within 500 pixels, at all 5 zoom levels and 3
\* views, and no record whose key is the key derived from a point at a
\* distance of 600 pixels.
C20_Scenario == [][C20_PointsRecorded /\ C20_NoRecordAt600]_vars

\* C20, amended: the invalidation of the settlement at (1000, 750) produces
\* records for the tile of every sampled point of the 100 pixel grid within
\* 500 pixels, at all 5 zoom levels and 3 views, and every record it
\* produces is the record of the tile of such a point: a point at a distance
\* of 600 pixels has a record exactly when its tile holds a sampled point.
C20_ScenarioAmended == [][C20_PointsRecorded /\ C20_OnlySampledPoints]_vars

\* the settlement at (1000, 750) was invalidated: 14 tiles in 3 views have a
\* record, among them the tile of zoom level 0 that holds (400, 750), a point
\* 600 pixels from the centre, and not the one that holds (1600, 750)
C20_Witness ==
  /\ invSeq = 1 /\ settlement = NoSettlement /\ settlements = 1
  /\ Cardinality(tile_cache_invalidation) = 42
  /\ \A viewMode \in MapView :
       /\ isTileInvalidated("m1", worldToTile(400, 750, 0).x,
                            worldToTile(400, 750, 0).y, 0, viewMode)
       /\ isTileInvalidated("m1", 2, 2, 0, viewMode)
       /\ ~isTileInvalidated("m1", worldToTile(1600, 750, 0).x,
                             worldToTile(1600, 750, 0).y, 0, viewMode)
       /\ ~isTileInvalidated("m1", 0, 0, 0, viewMode)

\* C28: the invalidation works for every position of a settlement, also less
\* than 500 pixels from the left or top edge, where sampled points and their
\* tile coordinates are negative: every inserted record carries the zoom,
\* tileX, tileY and view of the tile of a sampled point, and the tile that
\* holds the centre of the settlement is invalidated at all 5 zoom levels
\* for all 3 views.
C28_CentreTileInvalidated ==
  \A position \in SettlementSites :
    SettlementInvalidated(position) =>
      /\ \A row \in NewInvalidations :
           \E p \in settlementCoordinates(position[1], position[2]) :
             \E zoomLevel \in 0..4 : \E viewMode \in MapView :
               RecordOfPoint(row, <<p.x, p.y>>, zoomLevel, viewMode)
      /\ \A zoomLevel \in 0..4 : \A viewMode \in MapView :
           isTileInvalidated("m1", worldToTile(position[1], position[2], zoomLevel).x,
                             worldToTile(position[1], position[2], zoomLevel).y,
                             zoomLevel, viewMode)'

C28_EveryPosition == [][C28_CentreTileInvalidated]_vars

(***************************************************************************)
(* Claims about the map generation route                                   *)
(***************************************************************************)
\* no generation request is between two of its steps
GenerateQuiescent == \A g \in Gens : gen[g].pc \in {"idle", "done"}

\* C21: after any sequence of generation requests, concurrent ones and ones
\* whose deletes fail included, the table maps holds at most one map, and
\* when a generation has succeeded it is the map of the last one that did.
C21_AtMostOneActiveMap ==
  GenerateQuiescent =>
    /\ Cardinality(maps) <= 1
    /\ lastGenerated # NULL => maps = {lastGenerated}

\* C30: when a generation request has ended with the insert of its map
\* failed (500, "Failed to save map to database") and no other generation
\* request has run, the maps, the territories and the settlements the
\* request found are still stored.
C30_FailedGenerationKeepsState ==
  \A g \in Gens :
    ( /\ gen[g].pc = "done" /\ gen[g].status = 500
      /\ \A h \in Gens \ {g} : gen[h].pc = "idle" )
    => /\ gen[g].prior.maps \subseteq maps
       /\ territories >= gen[g].prior.territories
       /\ settlements >= gen[g].prior.settlements

(***************************************************************************)
(* Claims about the island placement                                       *)
(***************************************************************************)
\* the islands a run has placed
IslandsPlaced(n) == Len(runs[n].out.noise.islands)

\* C22: an island is dropped only when all 50 candidate centres were
\* rejected: when the distance test turns down fewer than 50 candidates of
\* an island, the one accepted on the 1st to the 50th attempt, the island
\* is placed; when it turns down 50, the island is dropped.
C22_DroppedOnlyAfter50Rejections ==
  \A n \in DOMAIN runs :
    IF runs[n].args.numContinents = 0 \/ landscape.rejected < 50
      THEN IslandsPlaced(n) = runs[n].args.numIslands
      ELSE IslandsPlaced(n) = 0

(***************************************************************************)
(* Claims about the fetches of the tile loader                             *)
(***************************************************************************)
\* the step starts the fetch of the key: an Image with its url is created
Fetches(key) == CopiesIn(key, images') > CopiesIn(key, images)

\* the keys the loader has pushed requests for
LoaderKeys == {RequestKey(requestQueue[i]) : i \in DOMAIN requestQueue}

\* C23: a request taken from the queue whose key is already loaded or in
\* flight is skipped: no step starts the fetch of a key that is in
\* loadedTiles or in loadingTiles.  Only clearCache removes keys from the two
\* sets, so as long as it is not called no key is fetched twice.
C23_FetchOnlyUnknownKeys ==
  \A key \in LoaderKeys :
    Fetches(key) => key \notin loadedTiles /\ key \notin loadingTiles

C23_NoDuplicateFetch == [][C23_FetchOnlyUnknownKeys]_vars

(***************************************************************************)
(* Claims about the progress of the preload                                *)
(***************************************************************************)
\* the step is an onload or onerror that reports progress: lines 277-280 and
\* 291-294 call onProgress(preloadLoaded, preloadTotal, preloadZoomLevel)
ReportsProgress ==
  /\ preload.isPreloading
  /\ \E key \in BagToSet(images) : CopiesIn(key, images') < CopiesIn(key, images)

\* C27: every progress report (loaded, total, currentZoom) of a preload has
\* 0 <= loaded <= total, total being the number of tiles of the pyramid of
\* the view: no tile is counted twice, also when updateViewport has loaded
\* or requested tiles before or during the preload.
C27_ReportWithinTotal ==
  ReportsProgress =>
    /\ 0 <= preload'.preloadLoaded
    /\ preload'.preloadLoaded <= preload'.preloadTotal
    /\ preload'.preloadTotal = SumTiles(4)

C27_ProgressBounded == [][C27_ReportWithinTotal]_vars

(***************************************************************************)
(* Claims about the tile set of the precompute                             *)
(***************************************************************************)
\* the ids of the tiles of the pyramid of the stored map, as the rasterizer
\* (getTileSize) and the loader (getAllTilesForZoom) define it
PyramidKeys ==
  UNION {{getTileKey("m1", zoomLevel, t.x, t.y, v) :
            t \in Range(TileLoader_getAllTilesForZoom(mapSize.width, mapSize.height, zoomLevel)),
            v \in MapView} : zoomLevel \in 0..4}

\* the step is an upsert of the precompute
PrecomputeStores == pre'.done > pre.done

\* C29: every tile the precompute renders and stores is a tile of the
\* pyramid of the map: 0 <= x < ceil(width / (tileSize(z) * multiplier(z)))
\* and 0 <= y < ceil(height / (tileSize(z) * multiplier(z))); no tile lying
\* outside the map is rendered or cached.
C29_StoresOnlyPyramidTiles ==
  PrecomputeStores =>
    \A row \in map_tiles' \ map_tiles : row.id \in PyramidKeys

C29_PrecomputeExactTileSet == [][C29_StoresOnlyPyramidTiles]_vars

\* and when the precompute has ended, every tile of the pyramid was stored
PyramidPrecomputed ==
  pre.pc = "done" =>
    PyramidKeys \subseteq {row.id : row \in precomputeRows("m1", pre.snapshot, 0, pre.done)}

(***************************************************************************)
(* Claims about the cells of a tile                                        *)
(***************************************************************************)
\* the vertices of a polygon as pairs <<m, y2>>: the vertex is
\* (hexSize * SQRT3 * m / 2, y2 / 2)
Vertices(polygon) ==
  LET size == polygon.hexSize
      cy2 == 3 * size * polygon.row
  IN {<<polygon.k, cy2 - 2 * size>>, <<polygon.k, cy2 + 2 * size>>,
      <<polygon.k - 1, cy2 - size>>, <<polygon.k - 1, cy2 + size>>,
      <<polygon.k + 1, cy2 - size>>, <<polygon.k + 1, cy2 + size>>}

\* the vertex lies within the bounds
VertexInBounds(polygon, vertex, bounds) ==
  LET size == polygon.hexSize
      m == vertex[1]
  IN /\ m >= 0
     /\ bounds.minX = 0 \/ 3 * size * size * m * m >= 4 * bounds.minX * bounds.minX
     /\ 3 * size * size * m * m <= 4 * bounds.maxX * bounds.maxX
     /\ 2 * bounds.minY <= vertex[2]
     /\ vertex[2] <= 2 * bounds.maxY

\* a vertex of the polygon lies within the bounds, so the polygon and the
\* bounds intersect
PolygonMeetsBounds(polygon, bounds) ==
  \E vertex \in Vertices(polygon) : VertexInBounds(polygon, vertex, bounds)

\* a tile was rendered
TileRendered == rendered.run > 0

\* C25: for every tile of the grid at every zoom level and for any
\* configured hexSize, every cell whose polygon intersects the bounds of the
\* tile is selected for the tile.
C25_IntersectingCellsSelected ==
  TileRendered =>
    \A i \in DOMAIN CellsOf(rendered.run) :
      PolygonMeetsBounds(CellsOf(rendered.run)[i].polygon, rendered.bounds) =>
        \E j \in DOMAIN rendered.cells :
          rendered.cells[j].id = CellsOf(rendered.run)[i].id

(***************************************************************************)
(* Claims about the end of the preload                                     *)
(***************************************************************************)
\* every tile of the pyramid is loaded for the view
PyramidLoaded(viewMode) ==
  \A zoomLevel \in 0..4 : \A tile \in Range(getAllTilesForZoom(zoomLevel)) :
    TileLoader_getTileKey(tile, viewMode) \in loadedTiles

\* C24: when the view mode changes the preload is restarted for the new
\* view: after preloadAllTiles(newView) is called, also while the preload of
\* another view is running, every tile of the pyramid is eventually
\* requested and loaded for newView.
C24_NewViewPreloaded ==
  \A viewMode \in PreloadViews : (mapView = viewMode) ~> PyramidLoaded(viewMode)

\* isPreloadComplete(), lines 419-421
isPreloadComplete ==
  ~preload.isPreloading /\ preload.preloadLoaded >= preload.preloadTotal

\* C26: the preload terminates: after preloadAllTiles(view), every fetch
\* that was dispatched being completed at some time, the preload stops
\* polling, isPreloading becomes false and isPreloadComplete() is true, also
\* when clearCache() or updateViewport() is called while it runs.
C26_PreloadTerminates ==
  preload.isPreloading ~> (poll = NoPoll /\ isPreloadComplete)

====
